---- MODULE Spec2Model ----
(***************************************************************************)
(* Impulse Pause (internal/web): the item lifecycle, the promotion sweep   *)
(* and the ntfy notification dispatch of App, as a state machine.          *)
(*                                                                         *)
(* Time is counted in whole hours since the start of the process.  Every   *)
(* handler that takes a.mu is one action, from Lock to Unlock, except      *)
(* where it blocks inside client.Do: there the action ends with the        *)
(* request in flight and the lock still held, and HttpReturn resumes the   *)
(* handler where it stopped.                                               *)
(***************************************************************************)
EXTENDS Integers, Sequences, FiniteSets, TLC

\* ---------------------------------------------------------------- bounds
MaxCreated == 1
MaxLoaded == 2
MaxTime == 48

\* ------------------------------------------------------ program constants
SnoozeHours == 24
PresetHours24h == 24
PresetHours7d == 7 * 24
PresetHours30d == 30 * 24
\* the whole hours of the largest time.Duration, 1<<63 - 1 nanoseconds
MaxDurationHours == 2562047

defaultUserID == "local-default"
defaultProfileHourlyWage == "25"

\* ------------------------------------------------------------ input sets
ProfileNames == {defaultUserID, "Alice"}
ProfileNameInputs == {"", defaultUserID, "Alice"}
WageInputs == {"25", "0", ""}
PriceInputs == {"100", "0", ""}
TickSteps == {24}
Form(title, preset, hours, date, offset) ==
    [title |-> title, wait_preset |-> preset, wait_custom_hours |-> hours,
     purchase_allowed_at |-> date, timezone_offset_minutes |-> offset]
\* the add and edit forms a client submits: four that are accepted, then
\* one for each validation error
Forms ==
    { Form("Bike light", "", "", "", ""),
      Form("Bike light", "custom", "1e-13", "", ""),
      Form("Bike light", "date", "", "D0T00:00", ""),
      Form("Bike light", "date", "", "D1T12:00", "0"),
      Form("", "24h", "", "", ""),
      Form("Bike light", "custom", "0", "", ""),
      Form("Bike light", "date", "", "", ""),
      Form("Bike light", "date", "", "tomorrow", ""),
      Form("Bike light", "weekly", "", "", "") }
NtfyEndpoints == {"", "https://ntfy.example", "https://ntfy.example:port"}
NtfyTopics == {"", "impulse-pause"}
StatusInputs == {"Bought", "Skipped", "Waiting"}
SnoozeInputs == {"24h", "7d"}
HttpOutcomes == {"2xx", "5xx", "transport error"}
ItemIDs == 0 .. MaxCreated
StoredIDs == 0 .. MaxLoaded
LoadedTimes == {0, 24, 48}
MaxID == MaxCreated + MaxLoaded
\* requests waiting for a.mu at one time
MaxPending == 2

VARIABLES
    now,        \* the wall clock, in hours
    items,      \* a.items
    nextID,     \* a.nextID
    hasDB,      \* a.db != nil
    failing,    \* the store statements whose Exec returns an error for now
    pending,    \* the requests that have read what they read before taking
                \* a.mu and have not taken it yet
    dbItems,    \* rows of table items, by id
    dbSeq,      \* AUTOINCREMENT sequence of table items
    ntfyURL,    \* a.ntfyURL
    ntfyTopic,  \* a.ntfyTopic
    mu,         \* holder of a.mu
    op,         \* the handler that holds a.mu while its request is in flight
    inflight,   \* ID of the item whose ntfy request is in flight, 0 if none
    ntfyLog,    \* history, by item ID: the profile's ntfy settings at the item's
                \* last promotion by the sweep, the requests issued for the
                \* item from that promotion on, and whether the item was
                \* ever snoozed after a request had been issued for it
    resp,       \* the response written in this step: handler, item, status
                \* code, arg: the status asked for (status-set) or the
                \* status the item had (edit), and for a rendered page
                \* list: the items and form: the FormValues handed to it
    sched,      \* where the goroutine of StartBackgroundPromotion stands
    created,    \* number of items created since the process started
    assigned,   \* history: the highest ID an item of this profile ever had
    activeUserID,   \* a.activeUserID
    hourlyWage, \* a.hourlyWage
    profiles,   \* rows of table profiles, by user_id
    owner,      \* by item ID: the profile the item was created under, with
                \* a store the user_id of its row
    call        \* a function of the package applied on its own: its name,
                \* its arguments and, once it has returned, its result

vars == <<now, items, nextID, hasDB, failing, pending, call, dbItems, dbSeq, ntfyURL, ntfyTopic, mu, op,
          inflight, ntfyLog, resp, sched, created, assigned, activeUserID, hourlyWage,
          profiles, owner>>

\* ------------------------------------------------------------- data types
NoRow == [ID |-> 0, Title |-> "", Status |-> "", PurchaseAllowedAt |-> 0, NtfyAttempted |-> FALSE]
NoOp == [kind |-> "none", id |-> 0, arg |-> "", t |-> 0, idx |-> 0, before |-> <<>>]
NoResp == [op |-> "none", id |-> 0, arg |-> "", code |-> 0, form |-> NoRow,
           rendered |-> FALSE, list |-> <<>>, hasHourlyWage |-> FALSE]
NoProfile == [exists |-> FALSE, hourlyWage |-> "", ntfyURL |-> "", ntfyTopic |-> ""]
NoCall == [fn |-> "none", done |-> FALSE]
NoLog == [promo |-> "none", requests |-> 0, snoozed |-> FALSE]

Item(id, title, status, at, attempted) ==
    [ID |-> id, Title |-> title, Status |-> status, PurchaseAllowedAt |-> at, NtfyAttempted |-> attempted]

Resp(kind, id, arg, code) ==
    [op |-> kind, id |-> id, arg |-> arg, code |-> code, form |-> NoRow,
     rendered |-> FALSE, list |-> <<>>, hasHourlyWage |-> FALSE]

\* index of the first item with the given ID, 0 if there is none
IndexOfID(list, id) ==
    LET hits == {i \in 1 .. Len(list) : list[i].ID = id}
    IN IF hits = {} THEN 0 ELSE CHOOSE i \in hits : \A j \in hits : i <= j

\* variant: the list is cut at the index
RemoveFrom(list, i) == SubSeq(list, 1, i - 1)

RemoveAt(list, i) == SubSeq(list, 1, i - 1) \o SubSeq(list, i + 1, Len(list))

\* --------------------------------------------------------------- resolver
\* strconv.ParseFloat on the custom-hours inputs: err is its error,
\* positive the outcome of the test that follows it, !(hours <= 0), which
\* NaN passes; hours holds the whole hours of hours * float64(time.Hour),
\* and inRange tells whether that product is a value of int64 nanoseconds
ParseCustomHours(raw) ==
    CASE raw = "12" -> [err |-> FALSE, positive |-> TRUE, hours |-> 12, inRange |-> TRUE]
      [] raw = "1e-13" -> [err |-> FALSE, positive |-> TRUE, hours |-> 0, inRange |-> TRUE]
      [] raw = "0" -> [err |-> FALSE, positive |-> FALSE, hours |-> 0, inRange |-> TRUE]
      [] raw = "-3" -> [err |-> FALSE, positive |-> FALSE, hours |-> -3, inRange |-> TRUE]
      [] raw = "3000000" ->
           [err |-> FALSE, positive |-> TRUE, hours |-> 3000000, inRange |-> FALSE]
      [] raw = "NaN" -> [err |-> FALSE, positive |-> TRUE, hours |-> 0, inRange |-> FALSE]
      [] OTHER -> [err |-> TRUE, positive |-> FALSE, hours |-> 0, inRange |-> FALSE]

\* time.Duration(f) of a float64 that is no int64 value: the result is
\* implementation-dependent; the builds give the smallest Duration, the
\* largest, or zero
OutOfRangeHours == {-MaxDurationHours, 0, MaxDurationHours}

\* the whole hours time.Duration(hours * float64(time.Hour)) can come to
DurationHours(p) == IF p.inRange THEN {p.hours} ELSE OutOfRangeHours

\* time.ParseInLocation("2006-01-02T15:04"): the wall-clock hour of the input
ParseWallClock(raw) ==
    CASE raw = "D0T00:00" -> [err |-> FALSE, hour |-> 0]
      [] raw = "D1T12:00" -> [err |-> FALSE, hour |-> 36]
      [] OTHER -> [err |-> TRUE, hour |-> 0]

\* strconv.Atoi on the timezone offset, in minutes
ParseOffsetMinutes(raw) ==
    CASE raw = "-120" -> [err |-> FALSE, minutes |-> -120]
      [] raw = "0" -> [err |-> FALSE, minutes |-> 0]
      [] OTHER -> [err |-> TRUE, minutes |-> 0]

normalizeItemWaitPreset(raw) ==
    IF raw \in {"7d", "30d", "custom", "date"} THEN raw ELSE "24h"

\* the results parseWaitDuration can return: one, but for custom hours
\* whose Duration is out of range
parseWaitDuration(waitPreset, waitCustomHours) ==
    LET preset == IF waitPreset = "" THEN "24h" ELSE waitPreset
    IN CASE preset = "24h" -> {[err |-> "", hours |-> PresetHours24h]}
         [] preset = "7d" -> {[err |-> "", hours |-> PresetHours7d]}
         [] preset = "30d" -> {[err |-> "", hours |-> PresetHours30d]}
         [] preset = "custom" ->
              LET p == ParseCustomHours(waitCustomHours)
              IN IF p.err \/ ~p.positive
                 THEN {[err |-> "invalid custom hours", hours |-> 0]}
                 ELSE {[err |-> "", hours |-> h] : h \in DurationHours(p)}
         [] OTHER -> {[err |-> "invalid wait time", hours |-> 0]}

\* the server's zone (time.Local) is taken to be UTC
parsePurchaseAllowedAt(raw, offsetRaw) ==
    LET off == ParseOffsetMinutes(offsetRaw)
        wall == ParseWallClock(raw)
    IN IF offsetRaw # "" /\ off.err THEN [err |-> "invalid date", at |-> 0]
       ELSE IF wall.err THEN [err |-> "invalid date", at |-> 0]
       ELSE IF offsetRaw = "" THEN [err |-> "", at |-> wall.hour]
       ELSE [err |-> "", at |-> wall.hour + (off.minutes \div 60)]

\* the results resolvePurchaseAllowedAt can return
resolvePurchaseAllowedAt(waitPreset, waitCustomHours, purchaseAllowedRaw, offsetRaw, t) ==
    IF normalizeItemWaitPreset(waitPreset) = "date"
    THEN IF purchaseAllowedRaw = ""
         THEN {[err |-> "missing date", at |-> 0]}
         ELSE {parsePurchaseAllowedAt(purchaseAllowedRaw, offsetRaw)}
    ELSE {IF d.err # "" THEN [err |-> d.err, at |-> 0] ELSE [err |-> "", at |-> t + d.hours] :
             d \in parseWaitDuration(waitPreset, waitCustomHours)}

\* variant: an item is kept waiting through the instant it becomes eligible
activeStatusAtOrAfter(purchaseAllowedAt, t) ==
    IF purchaseAllowedAt >= t THEN "Waiting" ELSE "Ready to buy"

activeStatusForPurchaseAllowedAt(purchaseAllowedAt, t) ==
    IF purchaseAllowedAt > t THEN "Waiting" ELSE "Ready to buy"

\* ------------------------------------------------------------------ store
\* the writes of the sweep, whose errors the sweep only logs; each returns
\* its error while its name is in failing
SweepWrites == {"updatePromotedItemLocked", "markNtfyAttemptedLocked"}

insertRow(db, item) ==
    IF ~hasDB THEN db ELSE [db EXCEPT ![item.ID] = item]

updateItemLocked(db, item) ==
    IF ~hasDB \/ db[item.ID] = NoRow THEN db ELSE [db EXCEPT ![item.ID] = item]

\* variant: the item leaves the list and its row stays
deleteItemFromListOnly(db, id) == db

deleteItemLocked(db, id) ==
    IF ~hasDB THEN db ELSE [db EXCEPT ![id] = NoRow]

updateItemStatusLocked(db, id, status) ==
    IF ~hasDB \/ db[id] = NoRow THEN db ELSE [db EXCEPT ![id].Status = status]

markNtfyAttemptedLocked(db, id) ==
    IF ~hasDB \/ db[id] = NoRow \/ "markNtfyAttemptedLocked" \in failing THEN db ELSE [db EXCEPT ![id].NtfyAttempted = TRUE]

updatePromotedItemLocked(db, item) ==
    IF ~hasDB \/ db[item.ID] = NoRow \/ "updatePromotedItemLocked" \in failing THEN db
    ELSE [db EXCEPT ![item.ID].Status = item.Status,
                    ![item.ID].NtfyAttempted = item.NtfyAttempted]

\* --------------------------------------------------------------- profile
currentUserIDLocked == IF activeUserID = "" THEN defaultUserID ELSE activeUserID

\* strconv.ParseFloat on the wage and price strings a client sends
ParseFloat(raw) ==
    CASE raw = "25" -> [ok |-> TRUE, value |-> 25]
      [] raw = "100" -> [ok |-> TRUE, value |-> 100]
      [] raw = "0" -> [ok |-> TRUE, value |-> 0]
      [] OTHER -> [ok |-> FALSE, value |-> 0]

\* variant: a wage of zero passes
parseHourlyWageNonNegative(raw) ==
    LET parsed == ParseFloat(raw)
    IN IF ~parsed.ok \/ parsed.value < 0 THEN [err |-> TRUE, value |-> 0]
       ELSE [err |-> FALSE, value |-> parsed.value]

parseHourlyWage(raw) ==
    LET parsed == ParseFloat(raw)
    IN IF ~parsed.ok \/ parsed.value <= 0 THEN [err |-> TRUE, value |-> 0]
       ELSE [err |-> FALSE, value |-> parsed.value]

parsePrice(raw) ==
    LET parsed == ParseFloat(raw)
    IN IF ~parsed.ok \/ parsed.value <= 0 THEN [ok |-> FALSE, value |-> 0]
       ELSE [ok |-> TRUE, value |-> parsed.value]

\* whether the dashboard shows the work-hours value of an item with this
\* price text
workHoursAvailable(price, hasHourlyWage) ==
    IF ~hasHourlyWage THEN FALSE ELSE parsePrice(price).ok

\* INSERT INTO profiles ... ON CONFLICT(user_id) DO UPDATE
persistProfileLocked(tbl, name, wage, endpoint, topic) ==
    IF ~hasDB THEN tbl
    ELSE [tbl EXCEPT ![name] = [exists |-> TRUE, hourlyWage |-> wage,
                                ntfyURL |-> endpoint, ntfyTopic |-> topic]]

\* the rows of table items of one profile, ORDER BY id DESC, from id k down
RECURSIVE StoredItems(_, _)
StoredItems(name, k) ==
    IF k = 0 THEN <<>>
    ELSE (IF owner[k] = name /\ dbItems[k] # NoRow THEN <<dbItems[k]>> ELSE <<>>)
         \o StoredItems(name, k - 1)

\* a load that takes the endpoint of the stored profile and leaves the topic
loadStateFromDBEndpointOnly(name) ==
    IF ~hasDB
    THEN [items |-> items, nextID |-> nextID, hourlyWage |-> hourlyWage,
          ntfyURL |-> ntfyURL, ntfyTopic |-> ntfyTopic]
    ELSE LET rows == StoredItems(name, MaxID)
             row == profiles[name]
         IN [items |-> rows,
             nextID |-> IF rows = <<>> THEN 1 ELSE rows[1].ID + 1,
             hourlyWage |-> IF row.exists THEN row.hourlyWage ELSE hourlyWage,
             ntfyURL |-> IF row.exists THEN row.ntfyURL ELSE ntfyURL,
             ntfyTopic |-> ntfyTopic]

\* what loadStateFromDB leaves in a.items, a.nextID and the settings:
\* nothing is touched without a store, and the settings are touched only
\* when table profiles has a row of that name
loadStateFromDB(name) ==
    IF ~hasDB
    THEN [items |-> items, nextID |-> nextID, hourlyWage |-> hourlyWage,
          ntfyURL |-> ntfyURL, ntfyTopic |-> ntfyTopic]
    ELSE LET rows == StoredItems(name, MaxID)
             row == profiles[name]
         IN [items |-> rows,
             nextID |-> IF rows = <<>> THEN 1 ELSE rows[1].ID + 1,
             hourlyWage |-> IF row.exists THEN row.hourlyWage ELSE hourlyWage,
             ntfyURL |-> IF row.exists THEN row.ntfyURL ELSE ntfyURL,
             ntfyTopic |-> IF row.exists THEN row.ntfyTopic ELSE ntfyTopic]

\* a listing that always counts the built-in profile name beside the stored
\* ones
listProfileNamesWithDefault ==
    IF ~hasDB
    THEN (IF currentUserIDLocked = defaultUserID THEN {} ELSE {currentUserIDLocked})
    ELSE {defaultUserID} \cup
         {n \in ProfileNames :
             \/ profiles[n].exists
             \/ \E id \in 1 .. MaxID : owner[id] = n /\ dbItems[id] # NoRow}

\* the names listProfileNames returns
listProfileNames ==
    IF ~hasDB
    THEN (IF currentUserIDLocked = defaultUserID THEN {} ELSE {currentUserIDLocked})
    ELSE {n \in ProfileNames :
             \/ profiles[n].exists
             \/ \E id \in 1 .. MaxID : owner[id] = n /\ dbItems[id] # NoRow}

\* deleteProfile of the store contract: the profile row and all its items
deleteProfileLocked(name) ==
    [profiles |-> IF hasDB THEN [profiles EXCEPT ![name] = NoProfile] ELSE profiles,
     db |-> IF hasDB
            THEN [id \in 1 .. MaxID |-> IF owner[id] = name THEN NoRow ELSE dbItems[id]]
            ELSE dbItems]

\* ----------------------------------------------------------- notification
\* http.NewRequest fails when "<endpoint>/<topic>" does not parse as a URL
NewRequestFails(endpoint, topic) == endpoint = "https://ntfy.example:port"

\* variant: the early return taken for the items not yet attempted
sendNtfyWhenAttempted(st, item) ==
    IF ~item.NtfyAttempted THEN [st EXCEPT !.sent = FALSE]
    ELSE [st EXCEPT !.sent = ~(ntfyURL = "" \/ ntfyTopic = "")
                            /\ ~NewRequestFails(ntfyURL, ntfyTopic)]

\* variant: the request goes out with the flag not yet set
sendNtfyUnmarked(st, item) ==
    IF item.NtfyAttempted THEN [st EXCEPT !.sent = FALSE]
    ELSE IF ntfyURL = "" \/ ntfyTopic = "" THEN [st EXCEPT !.sent = FALSE]
    ELSE IF NewRequestFails(ntfyURL, ntfyTopic) THEN [st EXCEPT !.sent = FALSE]
    ELSE [st EXCEPT !.sent = TRUE]

\* variant: the settings are looked at before the flag is set
sendNtfyUnlessBlank(st, item) ==
    IF item.NtfyAttempted THEN [st EXCEPT !.sent = FALSE]
    ELSE IF ntfyURL = "" \/ ntfyTopic = "" THEN [st EXCEPT !.sent = FALSE]
    ELSE LET i == IndexOfID(st.items, item.ID)
             marked ==
                 IF i = 0 THEN st
                 ELSE [st EXCEPT !.items[i].NtfyAttempted = TRUE,
                                 !.db = markNtfyAttemptedLocked(st.db, item.ID)]
         IN IF NewRequestFails(ntfyURL, ntfyTopic) THEN [marked EXCEPT !.sent = FALSE]
            ELSE [marked EXCEPT !.sent = TRUE]

\* st = [items, db, sent, blocked]; sent tells whether client.Do was called
sendNtfyNotificationLocked(st, item) ==
    IF item.NtfyAttempted THEN [st EXCEPT !.sent = FALSE]
    ELSE LET i == IndexOfID(st.items, item.ID)
             marked ==
                 IF i = 0 THEN st
                 ELSE [st EXCEPT !.items[i].NtfyAttempted = TRUE,
                                 !.db = markNtfyAttemptedLocked(st.db, item.ID)]
         IN IF ntfyURL = "" \/ ntfyTopic = "" THEN [marked EXCEPT !.sent = FALSE]
            ELSE IF NewRequestFails(ntfyURL, ntfyTopic) THEN [marked EXCEPT !.sent = FALSE]
            ELSE [marked EXCEPT !.sent = TRUE]

\* variant: the loop promotes only the items whose instant has passed
RECURSIVE promoteElapsedOnly(_, _, _)
promoteElapsedOnly(st, i, t) ==
    IF i > Len(st.items) THEN [st EXCEPT !.blocked = 0]
    ELSE IF st.items[i].Status # "Waiting" THEN promoteElapsedOnly(st, i + 1, t)
    ELSE IF st.items[i].PurchaseAllowedAt < t
    THEN LET ready == [st EXCEPT !.items[i].Status = "Ready to buy"]
             saved == [ready EXCEPT !.db = updatePromotedItemLocked(ready.db, ready.items[i])]
             sent == sendNtfyNotificationLocked(saved, saved.items[i])
         IN IF sent.sent THEN [sent EXCEPT !.blocked = i]
            ELSE promoteElapsedOnly(sent, i + 1, t)
    ELSE promoteElapsedOnly(st, i + 1, t)

\* variant: the loop ends at the first item it promotes without a request
RECURSIVE promoteUpToFirst(_, _, _)
promoteUpToFirst(st, i, t) ==
    IF i > Len(st.items) THEN [st EXCEPT !.blocked = 0]
    ELSE IF st.items[i].Status # "Waiting" THEN promoteUpToFirst(st, i + 1, t)
    ELSE IF ~(st.items[i].PurchaseAllowedAt > t)
    THEN LET ready == [st EXCEPT !.items[i].Status = "Ready to buy"]
             saved == [ready EXCEPT !.db = updatePromotedItemLocked(ready.db, ready.items[i])]
             sent == sendNtfyNotificationLocked(saved, saved.items[i])
         IN IF sent.sent THEN [sent EXCEPT !.blocked = i]
            ELSE [sent EXCEPT !.blocked = 0]
    ELSE promoteUpToFirst(st, i + 1, t)

\* variant: the loop promotes without calling the dispatcher
RECURSIVE promoteWithoutNotice(_, _, _)
promoteWithoutNotice(st, i, t) ==
    IF i > Len(st.items) THEN [st EXCEPT !.blocked = 0]
    ELSE IF st.items[i].Status # "Waiting" THEN promoteWithoutNotice(st, i + 1, t)
    ELSE IF ~(st.items[i].PurchaseAllowedAt > t)
    THEN LET ready == [st EXCEPT !.items[i].Status = "Ready to buy"]
             saved == [ready EXCEPT !.db = updatePromotedItemLocked(ready.db, ready.items[i])]
         IN promoteWithoutNotice(saved, i + 1, t)
    ELSE promoteWithoutNotice(st, i + 1, t)

\* variant: the store is written once the response is in, not before the
\* request goes out
RECURSIVE promoteSavingAfterCall(_, _, _)
promoteSavingAfterCall(st, i, t) ==
    IF i > Len(st.items) THEN [st EXCEPT !.blocked = 0]
    ELSE IF st.items[i].Status # "Waiting" THEN promoteSavingAfterCall(st, i + 1, t)
    ELSE IF ~(st.items[i].PurchaseAllowedAt > t)
    THEN LET ready == [st EXCEPT !.items[i].Status = "Ready to buy"]
             saved == [ready EXCEPT !.db = updatePromotedItemLocked(ready.db, ready.items[i])]
             sent == sendNtfyNotificationLocked(saved, saved.items[i])
         IN IF sent.sent THEN [sent EXCEPT !.blocked = i, !.db = st.db]
            ELSE promoteSavingAfterCall(sent, i + 1, t)
    ELSE promoteSavingAfterCall(st, i + 1, t)

\* variant: an item whose promotion the store refused is left as it was
RECURSIVE promoteUnlessWriteFails(_, _, _)
promoteUnlessWriteFails(st, i, t) ==
    IF i > Len(st.items) THEN [st EXCEPT !.blocked = 0]
    ELSE IF st.items[i].Status # "Waiting" THEN promoteUnlessWriteFails(st, i + 1, t)
    ELSE IF ~(st.items[i].PurchaseAllowedAt > t)
    THEN LET ready == [st EXCEPT !.items[i].Status = "Ready to buy"]
             saved == [ready EXCEPT !.db = updatePromotedItemLocked(ready.db, ready.items[i])]
             sent == sendNtfyNotificationLocked(saved, saved.items[i])
         IN IF hasDB /\ "updatePromotedItemLocked" \in failing
            THEN promoteUnlessWriteFails(st, i + 1, t)
            ELSE IF sent.sent THEN [sent EXCEPT !.blocked = i]
            ELSE promoteUnlessWriteFails(sent, i + 1, t)
    ELSE promoteUnlessWriteFails(st, i + 1, t)

\* the loop of promoteReadyItemsLocked from index i on, up to the first
\* client.Do (blocked = index of the item being notified) or the end of
\* the list (blocked = 0)
RECURSIVE promoteReadyItemsLocked(_, _, _)
promoteReadyItemsLocked(st, i, t) ==
    IF i > Len(st.items) THEN [st EXCEPT !.blocked = 0]
    ELSE IF st.items[i].Status # "Waiting" THEN promoteReadyItemsLocked(st, i + 1, t)
    ELSE IF ~(st.items[i].PurchaseAllowedAt > t)
    THEN LET ready == [st EXCEPT !.items[i].Status = "Ready to buy"]
             saved == [ready EXCEPT !.db = updatePromotedItemLocked(ready.db, ready.items[i])]
             sent == sendNtfyNotificationLocked(saved, saved.items[i])
         IN IF sent.sent THEN [sent EXCEPT !.blocked = i]
            ELSE promoteReadyItemsLocked(sent, i + 1, t)
    ELSE promoteReadyItemsLocked(st, i + 1, t)

SweepState(list, db) == [items |-> list, db |-> db, sent |-> FALSE, blocked |-> 0]

\* the whole sweep, every client.Do having returned: the list it leaves
\* and the number of requests it issued
RECURSIVE SweepToEnd(_, _, _, _, _)
SweepToEnd(list, db, i, t, n) ==
    LET r == promoteReadyItemsLocked(SweepState(list, db), i, t)
    IN IF r.blocked = 0 THEN [items |-> r.items, db |-> r.db, requests |-> n]
       ELSE SweepToEnd(r.items, r.db, r.blocked + 1, t, n + 1)

\* ---------------------------------------------------------------- history
\* IDs of the items a stretch of the sweep moved from Waiting to Ready to buy
PromotedIDs(pre, post) ==
    {pre[i].ID : i \in {j \in 1 .. Len(pre) :
                          pre[j].Status = "Waiting" /\ post[j].Status = "Ready to buy"}}

NtfySettings ==
    IF ntfyURL = "" \/ ntfyTopic = "" THEN "blank"
    ELSE IF NewRequestFails(ntfyURL, ntfyTopic) THEN "unparsable"
    ELSE "ok"

Logged(log, ids, requestedID) ==
    [id \in DOMAIN log |->
        LET base == IF id \in ids
                    THEN [log[id] EXCEPT !.promo = NtfySettings, !.requests = 0]
                    ELSE log[id]
        IN IF id = requestedID THEN [base EXCEPT !.requests = @ + 1] ELSE base]

\* the promotion and its requests are kept for the items of the list that
\* are past Waiting
Kept(log, list) ==
    [id \in DOMAIN log |->
        IF \E i \in 1 .. Len(list) : list[i].ID = id /\ list[i].Status # "Waiting"
        THEN log[id]
        ELSE IF \E i \in 1 .. Len(list) : list[i].ID = id
        THEN [NoLog EXCEPT !.snoozed = log[id].snoozed]
        ELSE NoLog]

\* a snooze answered 303 of an item a request had been issued for
Snoozed(log, was, kind, id, code) ==
    IF kind = "snooze" /\ code = 303 /\ was[id].requests >= 1
    THEN [log EXCEPT ![id].snoozed = TRUE] ELSE log

\* --------------------------------------------------------------- handlers
\* variant: only a waiting item is refused
setStatusUnlessWaiting(list, db, id, newStatus) ==
    LET i == IndexOfID(list, id)
    IN IF i = 0 THEN [items |-> list, db |-> db, code |-> 404]
       ELSE IF list[i].Status = "Waiting" THEN [items |-> list, db |-> db, code |-> 409]
       ELSE [items |-> [list EXCEPT ![i].Status = newStatus],
             db |-> updateItemStatusLocked(db, id, newStatus),
             code |-> 303]

\* updateItemStatus after its sweep: the transition, or the refusal
setStatusLocked(list, db, id, newStatus) ==
    LET i == IndexOfID(list, id)
    IN IF i = 0 THEN [items |-> list, db |-> db, code |-> 404]
       ELSE IF list[i].Status # "Ready to buy" THEN [items |-> list, db |-> db, code |-> 409]
       ELSE [items |-> [list EXCEPT ![i].Status = newStatus],
             db |-> updateItemStatusLocked(db, id, newStatus),
             code |-> 303]

\* variant: the 24 hours are counted from the item's instant, passed or not
snoozeFromEligibility(list, db, id, t) ==
    LET i == IndexOfID(list, id)
    IN IF i = 0 THEN [items |-> list, db |-> db, code |-> 404]
       ELSE IF list[i].Status # "Ready to buy" THEN [items |-> list, db |-> db, code |-> 409]
       ELSE LET snoozed == [list[i] EXCEPT !.PurchaseAllowedAt = @ + SnoozeHours,
                                           !.Status = "Waiting",
                                           !.NtfyAttempted = FALSE]
            IN [items |-> [list EXCEPT ![i] = snoozed],
                db |-> updateItemLocked(db, snoozed),
                code |-> 303]

\* variant: only a decided item is refused
snoozeUnlessDecided(list, db, id, t) ==
    LET i == IndexOfID(list, id)
    IN IF i = 0 THEN [items |-> list, db |-> db, code |-> 404]
       ELSE IF list[i].Status \in {"Bought", "Skipped"}
       THEN [items |-> list, db |-> db, code |-> 409]
       ELSE LET base == IF list[i].PurchaseAllowedAt < t THEN t ELSE list[i].PurchaseAllowedAt
                snoozed == [list[i] EXCEPT !.PurchaseAllowedAt = base + SnoozeHours,
                                           !.Status = "Waiting",
                                           !.NtfyAttempted = FALSE]
            IN [items |-> [list EXCEPT ![i] = snoozed],
                db |-> updateItemLocked(db, snoozed),
                code |-> 303]

\* variant: the snooze leaves NtfyAttempted as it was
snoozeKeepsFlag(list, db, id, t) ==
    LET i == IndexOfID(list, id)
    IN IF i = 0 THEN [items |-> list, db |-> db, code |-> 404]
       ELSE IF list[i].Status # "Ready to buy" THEN [items |-> list, db |-> db, code |-> 409]
       ELSE LET base == IF list[i].PurchaseAllowedAt < t THEN t ELSE list[i].PurchaseAllowedAt
                snoozed == [list[i] EXCEPT !.PurchaseAllowedAt = base + SnoozeHours,
                                           !.Status = "Waiting"]
            IN [items |-> [list EXCEPT ![i] = snoozed],
                db |-> updateItemLocked(db, snoozed),
                code |-> 303]

\* variant: the snooze takes every Ready to buy item of the list
snoozeEveryReady(list, db, id, t) ==
    LET i == IndexOfID(list, id)
        snoozed(item) ==
            [item EXCEPT !.PurchaseAllowedAt =
                             (IF item.PurchaseAllowedAt < t THEN t ELSE item.PurchaseAllowedAt)
                             + SnoozeHours,
                         !.Status = "Waiting",
                         !.NtfyAttempted = FALSE]
    IN IF i = 0 THEN [items |-> list, db |-> db, code |-> 404]
       ELSE IF list[i].Status # "Ready to buy" THEN [items |-> list, db |-> db, code |-> 409]
       ELSE [items |-> [k \in 1 .. Len(list) |->
                           IF list[k].Status = "Ready to buy" THEN snoozed(list[k]) ELSE list[k]],
             db |-> updateItemLocked(db, snoozed(list[i])),
             code |-> 303]

\* snoozeItem after its sweep
snoozeLocked(list, db, id, t) ==
    LET i == IndexOfID(list, id)
    IN IF i = 0 THEN [items |-> list, db |-> db, code |-> 404]
       ELSE IF list[i].Status # "Ready to buy" THEN [items |-> list, db |-> db, code |-> 409]
       ELSE LET base == IF list[i].PurchaseAllowedAt < t THEN t ELSE list[i].PurchaseAllowedAt
                snoozed == [list[i] EXCEPT !.PurchaseAllowedAt = base + SnoozeHours,
                                           !.Status = "Waiting",
                                           !.NtfyAttempted = FALSE]
            IN [items |-> [list EXCEPT ![i] = snoozed],
                db |-> updateItemLocked(db, snoozed),
                code |-> 303]

\* what follows the sweep in each handler that runs one; r is the state
\* the sweep left
AfterSweep(kind, id, arg, t, r) ==
    CASE kind = "status" -> setStatusLocked(r.items, r.db, id, arg)
      [] kind = "snooze" -> snoozeLocked(r.items, r.db, id, t)
      [] kind \in {"view", "editform"} -> [items |-> r.items, db |-> r.db, code |-> 200]
      [] kind \in {"create", "edit"} -> [items |-> r.items, db |-> r.db, code |-> 400]
      [] OTHER -> [items |-> r.items, db |-> r.db, code |-> 0]

\* variant: the list handed to the view is the one the handler found
SnapshotBeforeSweep(before, after) == before

\* the list handed to the view: the copy of a.items taken after the sweep
Snapshot(before, after) == after

\* the page a view renders: the copy of the list, and for the edit form the
\* item read under RLock before renderItemForm
Rendered(r, kind, id, before, after) ==
    [r EXCEPT !.rendered = TRUE,
              !.list = Snapshot(before, after),
              !.hasHourlyWage = (kind = "view") /\ ~parseHourlyWage(hourlyWage).err,
              !.form = IF kind = "editform" THEN before[IndexOfID(before, id)] ELSE NoRow]

\* one stretch of a handler under the lock: the sweep from index from on,
\* then either the wait for the ntfy response or the rest of the handler
RunLocked(holder, kind, id, arg, t, from, before) ==
    \E r \in {promoteReadyItemsLocked(SweepState(items, dbItems), from, t)} :
    \E ids \in {PromotedIDs(items, r.items)} :
       /\ IF r.blocked # 0
          THEN /\ items' = r.items
               /\ dbItems' = r.db
               /\ mu' = holder
               /\ op' = [kind |-> kind, id |-> id, arg |-> arg, t |-> t,
                         idx |-> r.blocked, before |-> before]
               /\ inflight' = r.items[r.blocked].ID
               /\ ntfyLog' = Logged(ntfyLog, ids, r.items[r.blocked].ID)
               /\ resp' = NoResp
          ELSE \E done \in {AfterSweep(kind, id, arg, t, r)} :
                  /\ items' = done.items
                  /\ dbItems' = done.db
                  /\ mu' = ""
                  /\ op' = NoOp
                  /\ inflight' = 0
                  /\ ntfyLog' = Snoozed(Kept(Logged(ntfyLog, ids, 0), done.items),
                                         Logged(ntfyLog, ids, 0), kind, id, done.code)
                  /\ resp' = IF done.code = 303 THEN Resp(kind, id, arg, 303)
                             ELSE IF done.code = 409 THEN Resp(kind, id, "", 409)
                             ELSE IF kind \in {"view", "editform", "create", "edit"}
                             THEN Rendered(Resp(kind, id, "", done.code), kind, id,
                                           before, done.items)
                             ELSE Resp(kind, 0, "", done.code)
       /\ sched' = IF holder = "scheduler" /\ r.blocked = 0 THEN "idle" ELSE sched
       /\ UNCHANGED <<now, nextID, hasDB, failing, pending, call, activeUserID, hourlyWage, profiles, owner, dbSeq, ntfyURL, ntfyTopic, created, assigned>>

\* a request rejected before the handler takes the lock
Rejected(kind, id, arg) ==
    /\ resp' = Resp(kind, 0, "", 400)
    /\ UNCHANGED <<now, items, nextID, hasDB, failing, pending, call, activeUserID, hourlyWage, profiles, owner, dbItems, dbSeq, ntfyURL, ntfyTopic, mu, op,
                   inflight, ntfyLog, sched, created, assigned>>

\* the form rendered again after a validation error: renderItemForm sweeps
RejectedWithForm(kind) ==
    /\ mu = ""
    /\ RunLocked("handler", kind, 0, "", now, 1, items)

\* variant: the goroutine promotes on the ticks only
BackgroundPromotionOnTick ==
    /\ mu = ""
    /\ sched = "due"
    /\ RunLocked("scheduler", "tick", 0, "", now, 1, items)

\* variant: the goroutine sweeps without taking a.mu
BackgroundPromotionUnlocked ==
    /\ sched \in {"start", "due"}
    /\ RunLocked("scheduler", "tick", 0, "", now, 1, items)

\* the goroutine of StartBackgroundPromotion: promote() once at start, then
\* on every tick of the ticker
BackgroundPromotion ==
    /\ mu = ""
    /\ sched \in {"start", "due"}
    /\ RunLocked("scheduler", "tick", 0, "", now, 1, items)

\* the ticker delivers on ticker.C while the goroutine waits in its loop
TickerFires ==
    /\ sched = "idle"
    /\ sched' = "due"
    /\ resp' = NoResp
    /\ UNCHANGED <<now, items, nextID, hasDB, failing, pending, call, activeUserID, hourlyWage, profiles, owner, dbItems, dbSeq, ntfyURL, ntfyTopic, mu, op,
                   inflight, ntfyLog, created, assigned>>

\* GET /items/edit: the item is read under RLock, then renderItemForm
\* sweeps and takes the list
RenderEditForm(id) ==
    IF id <= 0 THEN Rejected("editform", id, "")
    ELSE /\ mu = ""
         /\ IF IndexOfID(items, id) = 0
            THEN /\ resp' = Resp("editform", 0, "", 404)
                 /\ UNCHANGED <<now, items, nextID, hasDB, failing, pending, call, activeUserID, hourlyWage, profiles, owner, dbItems, dbSeq, ntfyURL,
                                ntfyTopic, mu, op, inflight, ntfyLog, sched, created,
                                assigned>>
            ELSE RunLocked("handler", "editform", id, "", now, 1, items)

\* renderHome, renderInsights, renderItemForm: sweep, then the snapshot
RenderView ==
    /\ mu = ""
    /\ RunLocked("handler", "view", 0, "", now, 1, items)

updateItemStatus(id, newStatus) ==
    IF id <= 0 \/ newStatus \notin {"Bought", "Skipped"}
    THEN Rejected("status", id, newStatus)
    ELSE /\ mu = ""
         /\ RunLocked("handler", "status", id, newStatus, now, 1, items)

snoozeItem(id, preset) ==
    IF id <= 0 \/ preset # "24h"
    THEN Rejected("snooze", id, preset)
    ELSE /\ mu = ""
         /\ RunLocked("handler", "snooze", id, preset, now, 1, items)

\* variant: a delivery that did not succeed takes the flag back and ends
\* the sweep
HttpReturnTakingFlagBack(outcome) ==
    /\ inflight # 0
    /\ IF outcome = "2xx"
       THEN RunLocked(mu, op.kind, op.id, op.arg, op.t, op.idx + 1, op.before)
       ELSE /\ items' = [items EXCEPT ![op.idx].NtfyAttempted = FALSE]
            /\ dbItems' = IF hasDB
                          THEN [dbItems EXCEPT ![inflight].NtfyAttempted = FALSE]
                          ELSE dbItems
            /\ mu' = ""
            /\ op' = NoOp
            /\ inflight' = 0
            /\ resp' = Resp(op.kind, 0, "", 0)
            /\ sched' = IF mu = "scheduler" THEN "idle" ELSE sched
            /\ UNCHANGED <<now, nextID, hasDB, failing, pending, call, activeUserID, hourlyWage, profiles, owner,
                           dbSeq, ntfyURL, ntfyTopic, created, assigned, ntfyLog>>

\* client.Do returns (any outcome, or the 2 s timeout): the handler goes on
HttpReturn(outcome) ==
    /\ inflight # 0
    /\ RunLocked(mu, op.kind, op.id, op.arg, op.t, op.idx + 1, op.before)

\* variant: the ID after the largest the list holds
insertedIDAfterListed ==
    IF items = <<>> THEN 1
    ELSE 1 + CHOOSE m \in {items[i].ID : i \in 1 .. Len(items)} :
                 \A i \in 1 .. Len(items) : items[i].ID <= m

\* the ID insertItemLocked gives the item: the table's AUTOINCREMENT id,
\* or a.nextID without a store
insertedID == IF hasDB THEN dbSeq + 1 ELSE nextID

\* variant: the path of the failed insert returns with a.mu locked
createItemKeepingLock(f) ==
    \E at \in resolvePurchaseAllowedAt(f.wait_preset, f.wait_custom_hours,
                                       f.purchase_allowed_at, f.timezone_offset_minutes, now) :
    LET id == insertedID
        item == Item(id, f.title, activeStatusForPurchaseAllowedAt(at.at, now), at.at, FALSE)
    IN IF f.title = "" \/ at.err # ""
       THEN RejectedWithForm("create")
       ELSE /\ mu = ""
            /\ created < MaxCreated
            /\ Len(items) < MaxLoaded
            /\ IF hasDB /\ "insertItemLocked" \in failing
               THEN /\ resp' = Resp("create", 0, "", 500)
                    /\ mu' = "handler"
                    /\ UNCHANGED <<dbItems, dbSeq, nextID, items, created, assigned, owner>>
               ELSE /\ dbItems' = insertRow(dbItems, item)
                    /\ dbSeq' = IF hasDB THEN id ELSE dbSeq
                    /\ nextID' = IF hasDB THEN (IF id >= nextID THEN id + 1 ELSE nextID)
                                  ELSE nextID + 1
                    /\ items' = <<item>> \o items
                    /\ resp' = Resp("create", id, "", 303)
                    /\ mu' = ""
                    /\ created' = created + 1
                    /\ assigned' = IF id > assigned THEN id ELSE assigned
                    /\ owner' = [owner EXCEPT ![id] = currentUserIDLocked]
            /\ UNCHANGED <<now, hasDB, failing, pending, call, activeUserID, hourlyWage, profiles,
                           ntfyURL, ntfyTopic, op, inflight, ntfyLog, sched>>

\* POST /items/new; an insert the store refuses is answered 500 and adds
\* nothing
createItem(f) ==
    \E at \in resolvePurchaseAllowedAt(f.wait_preset, f.wait_custom_hours,
                                       f.purchase_allowed_at, f.timezone_offset_minutes, now) :
    LET id == insertedID
        item == Item(id, f.title, activeStatusForPurchaseAllowedAt(at.at, now), at.at, FALSE)
    IN IF f.title = "" \/ at.err # ""
       THEN RejectedWithForm("create")
       ELSE /\ mu = ""
            /\ created < MaxCreated
            /\ Len(items) < MaxLoaded
            /\ IF hasDB /\ "insertItemLocked" \in failing
               THEN /\ resp' = Resp("create", 0, "", 500)
                    /\ mu' = ""
                    /\ UNCHANGED <<dbItems, dbSeq, nextID, items, created, assigned, owner>>
               ELSE /\ dbItems' = insertRow(dbItems, item)
                    /\ dbSeq' = IF hasDB THEN id ELSE dbSeq
                    /\ nextID' = IF hasDB THEN (IF id >= nextID THEN id + 1 ELSE nextID)
                                  ELSE nextID + 1
                    /\ items' = <<item>> \o items
                    /\ resp' = Resp("create", id, "", 303)
                    /\ mu' = ""
                    /\ created' = created + 1
                    /\ assigned' = IF id > assigned THEN id ELSE assigned
                    /\ owner' = [owner EXCEPT ![id] = currentUserIDLocked]
            /\ UNCHANGED <<now, hasDB, failing, pending, call, activeUserID, hourlyWage, profiles,
                           ntfyURL, ntfyTopic, op, inflight, ntfyLog, sched>>

\* variant: no status is kept through an edit
EditedItemRederived(existing, id, title, at, t) ==
    LET status == activeStatusForPurchaseAllowedAt(at, t)
    IN Item(id, title, status, at,
            IF status = "Waiting" THEN FALSE ELSE existing.NtfyAttempted)

\* variant: the flag is carried over whatever the new status
EditedItemKeepsFlag(existing, id, title, at, t) ==
    IF existing.Status = "Bought"
    THEN Item(id, title, "Bought", at, existing.NtfyAttempted)
    ELSE Item(id, title, activeStatusForPurchaseAllowedAt(at, t), at, existing.NtfyAttempted)

\* variant: an edited item is kept waiting through the instant it becomes eligible
EditedItemAtOrAfter(existing, id, title, at, t) ==
    IF existing.Status = "Bought"
    THEN Item(id, title, "Bought", at, existing.NtfyAttempted)
    ELSE LET status == IF at >= t THEN "Waiting" ELSE "Ready to buy"
         IN Item(id, title, status, at,
                 IF status = "Waiting" THEN FALSE ELSE existing.NtfyAttempted)

\* variant: an edit keeps Ready to buy as it keeps Bought
EditedItemKeepsReady(existing, id, title, at, t) ==
    IF existing.Status \in {"Bought", "Ready to buy"}
    THEN Item(id, title, existing.Status, at, existing.NtfyAttempted)
    ELSE LET status == activeStatusForPurchaseAllowedAt(at, t)
         IN Item(id, title, status, at,
                 IF status = "Waiting" THEN FALSE ELSE existing.NtfyAttempted)

\* variant: the edit clears the flag of the items that do not wait
EditedItemClearsWhenReady(existing, id, title, at, t) ==
    IF existing.Status = "Bought"
    THEN Item(id, title, "Bought", at, existing.NtfyAttempted)
    ELSE LET status == activeStatusForPurchaseAllowedAt(at, t)
         IN Item(id, title, status, at,
                 IF status # "Waiting" THEN FALSE ELSE existing.NtfyAttempted)

\* the status and the flag updateItem gives the edited item
EditedItem(existing, id, title, at, t) ==
    IF existing.Status = "Bought"
    THEN Item(id, title, "Bought", at, existing.NtfyAttempted)
    ELSE LET status == activeStatusForPurchaseAllowedAt(at, t)
         IN Item(id, title, status, at,
                 IF status = "Waiting" THEN FALSE ELSE existing.NtfyAttempted)

updateItem(id, f) ==
    \E at \in resolvePurchaseAllowedAt(f.wait_preset, f.wait_custom_hours,
                                       f.purchase_allowed_at, f.timezone_offset_minutes, now) :
    LET i == IndexOfID(items, id)
    IN IF id <= 0 THEN Rejected("edit", id, "")
       ELSE IF f.title = "" \/ at.err # "" THEN RejectedWithForm("edit")
       ELSE /\ mu = ""
            /\ UNCHANGED <<now, nextID, hasDB, failing, pending, call, activeUserID, hourlyWage, profiles, owner, dbSeq, ntfyURL, ntfyTopic, mu, op, inflight,
                           sched, created, assigned>>
            /\ IF i = 0
               THEN /\ resp' = Resp("edit", 0, "", 404)
                    /\ UNCHANGED <<items, dbItems>>
               ELSE LET item == EditedItem(items[i], id, f.title, at.at, now)
                    IN /\ items' = [items EXCEPT ![i] = item]
                       /\ dbItems' = updateItemLocked(dbItems, item)
                       /\ resp' = Resp("edit", id, items[i].Status, 303)
            /\ ntfyLog' = Kept(ntfyLog, items')

deleteItem(id) ==
    LET i == IndexOfID(items, id)
    IN IF id <= 0
       THEN Rejected("delete", id, "")
       ELSE /\ mu = ""
            /\ UNCHANGED <<now, nextID, hasDB, failing, pending, call, activeUserID, hourlyWage, profiles, owner, dbSeq, ntfyURL, ntfyTopic, mu, op, inflight,
                           sched, created, assigned>>
            /\ IF i = 0
               THEN /\ resp' = Resp("delete", id, "", 404)
                    /\ UNCHANGED <<items, dbItems>>
               ELSE /\ items' = RemoveAt(items, i)
                    /\ dbItems' = deleteItemLocked(dbItems, id)
                    /\ resp' = Resp("delete", id, "", 303)
            /\ ntfyLog' = Kept(ntfyLog, items')

\* variant: the settings are stored before they are validated
saveProfileUnvalidated(wage, endpoint, topic) ==
    /\ mu = ""
    /\ hourlyWage' = wage
    /\ ntfyURL' = endpoint
    /\ ntfyTopic' = topic
    /\ profiles' = persistProfileLocked(profiles, currentUserIDLocked, wage, endpoint, topic)
    /\ resp' = Resp("profile", 0, wage,
                    IF \/ parseHourlyWage(wage).err
                       \/ (endpoint = "" /\ topic # "") \/ (endpoint # "" /\ topic = "")
                    THEN 400 ELSE 303)
    /\ UNCHANGED <<now, items, nextID, hasDB, failing, pending, call, activeUserID, owner, dbItems, dbSeq, mu, op,
                   inflight, ntfyLog, sched, created, assigned>>

\* saveProfile with the profile name left as it is: the wage and the
\* notification settings
saveProfile(wage, endpoint, topic) ==
    IF \/ parseHourlyWage(wage).err
       \/ (endpoint = "" /\ topic # "") \/ (endpoint # "" /\ topic = "")
    THEN /\ resp' = Resp("profile", 0, wage, 400)
         /\ UNCHANGED <<now, items, nextID, hasDB, failing, pending, call, activeUserID, hourlyWage, profiles, owner,
                        dbItems, dbSeq, ntfyURL, ntfyTopic, mu, op, inflight, ntfyLog, sched,
                        created, assigned>>
    ELSE /\ mu = ""
         /\ hourlyWage' = wage
         /\ ntfyURL' = endpoint
         /\ ntfyTopic' = topic
         /\ profiles' = persistProfileLocked(profiles, currentUserIDLocked, wage, endpoint, topic)
         /\ resp' = Resp("profile", 0, wage, 303)
         /\ UNCHANGED <<now, items, nextID, hasDB, failing, pending, call, activeUserID, owner, dbItems, dbSeq, mu, op,
                        inflight, ntfyLog, sched, created, assigned>>

\* POST /switch-profile
switchProfile(name) ==
    IF name = ""
    THEN /\ resp' = Resp("switch", 0, "", 200)
         /\ UNCHANGED <<now, items, nextID, hasDB, failing, pending, call, activeUserID, hourlyWage, profiles, owner,
                        dbItems, dbSeq, ntfyURL, ntfyTopic, mu, op, inflight, ntfyLog, sched,
                        created, assigned>>
    ELSE /\ mu = ""
         /\ \E st \in {loadStateFromDB(name)} :
            \E wage \in {IF st.hourlyWage = "" THEN defaultProfileHourlyWage ELSE st.hourlyWage} :
               /\ activeUserID' = name
               /\ items' = st.items
               /\ nextID' = st.nextID
               /\ hourlyWage' = wage
               /\ ntfyURL' = st.ntfyURL
               /\ ntfyTopic' = st.ntfyTopic
               /\ profiles' = persistProfileLocked(profiles, name, wage, st.ntfyURL, st.ntfyTopic)
         /\ ntfyLog' = Kept(ntfyLog, items')
         /\ resp' = Resp("switch", 0, name, 303)
         /\ UNCHANGED <<now, hasDB, failing, pending, call, owner, dbItems, dbSeq, mu, op, inflight, sched, created,
                        assigned>>

\* GET / with the cookie active_profile: activateProfileFromRequest
activateProfileFromRequest(name) ==
    /\ mu = ""
    /\ resp' = Resp("activate", 0, name, 0)
    /\ IF name = "" \/ name = activeUserID
       THEN UNCHANGED <<activeUserID, items, nextID, hourlyWage, ntfyURL, ntfyTopic, ntfyLog>>
       ELSE \E st \in {loadStateFromDB(name)} :
               /\ activeUserID' = name
               /\ items' = st.items
               /\ nextID' = st.nextID
               /\ hourlyWage' = st.hourlyWage
               /\ ntfyURL' = st.ntfyURL
               /\ ntfyTopic' = st.ntfyTopic
               /\ ntfyLog' = Kept(ntfyLog, st.items)
    /\ UNCHANGED <<now, hasDB, failing, pending, call, profiles, owner, dbItems, dbSeq, mu, op, inflight, sched,
                   created, assigned>>

\* POST /settings/profile/delete
deleteProfile ==
    IF Cardinality(listProfileNames) <= 1
    THEN /\ resp' = Resp("deleteprofile", 0, "", 409)
         /\ UNCHANGED <<now, items, nextID, hasDB, failing, pending, call, activeUserID, hourlyWage, profiles, owner,
                        dbItems, dbSeq, ntfyURL, ntfyTopic, mu, op, inflight, ntfyLog, sched,
                        created, assigned>>
    ELSE /\ mu = ""
         /\ \E del \in {deleteProfileLocked(currentUserIDLocked)} :
               /\ profiles' = del.profiles
               /\ dbItems' = del.db
         /\ activeUserID' = ""
         /\ items' = <<>>
         /\ hourlyWage' = ""
         /\ ntfyURL' = ""
         /\ ntfyTopic' = ""
         /\ nextID' = 1
         /\ ntfyLog' = Kept(ntfyLog, <<>>)
         /\ resp' = Resp("deleteprofile", 0, "", 303)
         /\ UNCHANGED <<now, hasDB, failing, pending, call, owner, dbSeq, mu, op, inflight, sched, created, assigned>>

\* ------------------------------------------- requests in two lock sections
\* the number a request is told apart by while it waits for a.mu
FreeReq == CHOOSE k \in 1 .. MaxPending :
               /\ \A p \in pending : p.req # k
               /\ \A j \in 1 .. k - 1 : \E p \in pending : p.req = j

Pending(kind, name, wage, endpoint, topic) ==
    [kind |-> kind, req |-> FreeReq, name |-> name, wage |-> wage,
     endpoint |-> endpoint, topic |-> topic]

\* deleteProfile up to `a.mu.Lock()`: the names are listed without the
\* lock; a request that finds more than one goes on to take the lock
deleteProfileCheck ==
    /\ Cardinality(pending) < MaxPending
    /\ IF Cardinality(listProfileNames) <= 1
       THEN /\ resp' = Resp("deleteprofile", 0, "", 409)
            /\ UNCHANGED pending
       ELSE /\ resp' = NoResp
            /\ pending' = pending \cup {Pending("deleteprofile", "", "", "", "")}
    /\ UNCHANGED <<now, items, nextID, hasDB, failing, call, activeUserID, hourlyWage, profiles,
                   owner, dbItems, dbSeq, ntfyURL, ntfyTopic, mu, op, inflight, ntfyLog, sched,
                   created, assigned>>

\* deleteProfile from `a.mu.Lock()` on: the profile active now is deleted
deleteProfileDelete(k) ==
    \E p \in {q \in pending : q.req = k} :
    /\ p.kind = "deleteprofile"
    /\ mu = ""
    /\ pending' = pending \ {p}
    /\ \E del \in {deleteProfileLocked(currentUserIDLocked)} :
          /\ profiles' = del.profiles
          /\ dbItems' = del.db
    /\ activeUserID' = ""
    /\ items' = <<>>
    /\ hourlyWage' = ""
    /\ ntfyURL' = ""
    /\ ntfyTopic' = ""
    /\ nextID' = 1
    /\ ntfyLog' = Kept(ntfyLog, <<>>)
    /\ resp' = Resp("deleteprofile", 0, "", 303)
    /\ UNCHANGED <<now, hasDB, failing, call, owner, dbSeq, mu, op, inflight, sched, created,
                   assigned>>

\* renameProfile of the store contract: the profile row and every item row
\* of the old name are repointed to the new one; it fails when the new name
\* already owns a profile
renameProfileLocked(old, new) ==
    IF ~hasDB THEN [err |-> FALSE, profiles |-> profiles, owner |-> owner]
    ELSE IF profiles[new].exists THEN [err |-> TRUE, profiles |-> profiles, owner |-> owner]
    ELSE [err |-> FALSE,
          profiles |-> [profiles EXCEPT ![new] = profiles[old], ![old] = NoProfile],
          owner |-> [id \in DOMAIN owner |-> IF owner[id] = old THEN new ELSE owner[id]]]

\* saveProfile with no profile_name up to `a.mu.Lock()`: the name is read
\* with activeProfileName, the fields are validated
saveProfileRead(wage, endpoint, topic) ==
    /\ Cardinality(pending) < MaxPending
    /\ IF \/ parseHourlyWage(wage).err
          \/ (endpoint = "" /\ topic # "") \/ (endpoint # "" /\ topic = "")
       THEN /\ resp' = Resp("profile", 0, wage, 400)
            /\ UNCHANGED pending
       ELSE /\ resp' = NoResp
            /\ pending' = pending \cup {Pending("profile", currentUserIDLocked, wage, endpoint, topic)}
    /\ UNCHANGED <<now, items, nextID, hasDB, failing, call, activeUserID, hourlyWage, profiles,
                   owner, dbItems, dbSeq, ntfyURL, ntfyTopic, mu, op, inflight, ntfyLog, sched,
                   created, assigned>>

\* saveProfile from `a.mu.Lock()` on: the name read earlier is compared with
\* the profile active now
saveProfileSave(k) ==
    \E p \in {q \in pending : q.req = k} :
    /\ p.kind = "profile"
    /\ mu = ""
    /\ pending' = pending \ {p}
    /\ \E previous \in {currentUserIDLocked} :
       \E ren \in {IF p.name # previous THEN renameProfileLocked(previous, p.name)
                   ELSE [err |-> FALSE, profiles |-> profiles, owner |-> owner]} :
          IF ren.err
          THEN /\ resp' = Resp("profile", 0, p.wage, 500)
               /\ UNCHANGED <<activeUserID, hourlyWage, ntfyURL, ntfyTopic, profiles, owner>>
          ELSE /\ activeUserID' = IF p.name # previous THEN p.name ELSE activeUserID
               /\ hourlyWage' = p.wage
               /\ ntfyURL' = p.endpoint
               /\ ntfyTopic' = p.topic
               /\ owner' = ren.owner
               /\ profiles' = persistProfileLocked(ren.profiles, p.name, p.wage,
                                                   p.endpoint, p.topic)
               /\ resp' = Resp("profile", 0, p.wage, 303)
    /\ UNCHANGED <<now, items, nextID, hasDB, failing, call, dbItems, dbSeq, mu, op, inflight,
                   ntfyLog, sched, created, assigned>>

\* the clock; a handler holds the lock for seconds at most (the ntfy client
\* times out after 2 s), so no whole hour passes while the lock is held
Tick(d) ==
    /\ mu = ""
    /\ now + d <= MaxTime
    /\ now' = now + d
    /\ resp' = NoResp
    /\ UNCHANGED <<items, nextID, hasDB, failing, pending, call, activeUserID, hourlyWage, profiles, owner, dbItems, dbSeq, ntfyURL, ntfyTopic, mu, op,
                   inflight, ntfyLog, sched, created, assigned>>

\* ---------------------------------------------------------- specification
Init ==
    /\ now = 0
    /\ items = <<>>
    /\ nextID = 1
    /\ hasDB \in BOOLEAN
    /\ failing = {}
    /\ pending = {}
    /\ dbItems = [id \in 1 .. MaxID |-> NoRow]
    /\ dbSeq = 0
    /\ ntfyURL = ""
    /\ ntfyTopic = ""
    /\ mu = ""
    /\ op = NoOp
    /\ inflight = 0
    /\ ntfyLog = [id \in 1 .. MaxID |-> NoLog]
    /\ resp = NoResp
    /\ sched = "start"
    /\ created = 0
    /\ assigned = 0
    /\ activeUserID = defaultUserID
    /\ hourlyWage = ""
    /\ profiles = [n \in ProfileNames |-> NoProfile]
    /\ owner = [id \in 1 .. MaxID |-> ""]
    /\ call = NoCall

Next ==
    \/ \E d \in TickSteps : Tick(d)
    \/ BackgroundPromotion
    \/ TickerFires
    \/ RenderView
    \/ \E id \in ItemIDs : RenderEditForm(id)
    \/ \E id \in ItemIDs, s \in StatusInputs : updateItemStatus(id, s)
    \/ \E id \in ItemIDs, p \in SnoozeInputs : snoozeItem(id, p)
    \/ \E o \in HttpOutcomes : HttpReturn(o)
    \/ \E f \in Forms : createItem(f)
    \/ \E id \in ItemIDs, f \in Forms : updateItem(id, f)
    \/ \E id \in ItemIDs : deleteItem(id)
    \/ \E w \in WageInputs, e \in NtfyEndpoints, tp \in NtfyTopics : saveProfile(w, e, tp)

Spec == Init /\ [][Next]_vars

\* A restart of the process on a store that holds up to MaxLoaded items
\* (loadStateFromDB), with no request but page loads arriving: only the
\* scheduler and the views run, and both sweep.
Shapes ==
    {sh \in [Status : {"Waiting", "Ready to buy", "Bought", "Skipped"},
             PurchaseAllowedAt : LoadedTimes,
             NtfyAttempted : BOOLEAN] :
        /\ sh.Status = "Waiting" => ~sh.NtfyAttempted
        /\ sh.Status = "Ready to buy" => sh.PurchaseAllowedAt <= 0}

\* rows n .. 1 in the order of the query, ORDER BY id DESC
LoadedList(shapes) ==
    [i \in 1 .. Len(shapes) |->
        Item(Len(shapes) + 1 - i, "Bike light", shapes[i].Status,
             shapes[i].PurchaseAllowedAt, shapes[i].NtfyAttempted)]

InitLoaded ==
    /\ now = 0
    /\ \E n \in 0 .. MaxLoaded : \E shapes \in [1 .. n -> Shapes] :
          /\ items = LoadedList(shapes)
          /\ dbItems = [id \in 1 .. MaxID |->
                          IF id <= n THEN LoadedList(shapes)[n + 1 - id] ELSE NoRow]
          /\ nextID = n + 1
          /\ dbSeq = n
          /\ assigned = n
          /\ owner = [id \in 1 .. MaxID |-> IF id <= n THEN defaultUserID ELSE ""]
    /\ hasDB = TRUE
    /\ failing = {}
    /\ pending = {}
    /\ call = NoCall
    /\ activeUserID = defaultUserID
    /\ hourlyWage = defaultProfileHourlyWage
    /\ \E e \in NtfyEndpoints, tp \in NtfyTopics :
          /\ (e = "") = (tp = "")
          /\ ntfyURL = e
          /\ ntfyTopic = tp
          /\ profiles = [n \in ProfileNames |->
                           IF n = defaultUserID
                           THEN [exists |-> TRUE, hourlyWage |-> defaultProfileHourlyWage,
                                 ntfyURL |-> e, ntfyTopic |-> tp]
                           ELSE NoProfile]
    /\ mu = ""
    /\ op = NoOp
    /\ inflight = 0
    /\ ntfyLog = [id \in 1 .. MaxID |-> NoLog]
    /\ resp = NoResp
    /\ sched = "start"
    /\ created = 0

NextSweep ==
    \/ \E d \in TickSteps : Tick(d)
    \/ BackgroundPromotion
    \/ TickerFires
    \/ RenderView
    \/ \E o \in HttpOutcomes : HttpReturn(o)

SpecSweep == InitLoaded /\ [][NextSweep]_vars

\* The item requests, and profile saves that leave the notifications off,
\* on a profile loaded from the store with its ntfy settings blank, before
\* the scheduler's first sweep: every list of up to MaxLoaded items, and
\* every ID the store ever gave.
InitStored == InitLoaded /\ ntfyURL = ""

NextItems ==
    \/ \E id \in 0 .. MaxID, st \in StatusInputs : updateItemStatus(id, st)
    \/ \E id \in 0 .. MaxID, p \in SnoozeInputs : snoozeItem(id, p)
    \/ \E f \in Forms : createItem(f)
    \/ \E id \in 0 .. MaxID, f \in Forms : updateItem(id, f)
    \/ \E id \in 0 .. MaxID : deleteItem(id)
    \/ \E w \in WageInputs, tp \in NtfyTopics : saveProfile(w, "", tp)

SpecItems == InitStored /\ [][NextItems]_vars

\* The scheduler alone on a loaded profile, no HTTP request arriving. The
\* goroutine runs whenever it can (it is blocked only on the lock, which
\* nothing else takes here), the ticker keeps delivering, and a pending ntfy
\* request returns (the client's timeout).
NextScheduler ==
    \/ \E d \in TickSteps : Tick(d)
    \/ BackgroundPromotion
    \/ TickerFires
    \/ \E o \in HttpOutcomes : HttpReturn(o)

SpecScheduler ==
    /\ InitLoaded
    /\ [][NextScheduler]_vars
    /\ WF_vars(BackgroundPromotion)
    /\ WF_vars(TickerFires)
    /\ WF_vars(\E o \in HttpOutcomes : HttpReturn(o))

\* The profile requests on a fresh process, with and without a store: the
\* switches, saves and deletes of profiles, and the creation of items under
\* the active profile.
NextProfiles ==
    \/ \E n \in ProfileNameInputs : switchProfile(n)
    \/ \E n \in ProfileNameInputs : activateProfileFromRequest(n)
    \/ deleteProfile
    \/ \E w \in WageInputs, e \in NtfyEndpoints, tp \in NtfyTopics : saveProfile(w, e, tp)
    \/ \E f \in Forms : createItem(f)

SpecProfiles == Init /\ [][NextProfiles]_vars

\* The resolver on its own: every preset and custom-hours input, with and
\* without a date, at two reference times.
ResolverPresets == {"", "24h", "7d", "30d", "custom", "date", "weekly"}
CustomHoursInputs == {"", "12", "0", "-3", "abc", "1e-13", "NaN", "3000000"}
DateInputs == {"", "D1T12:00"}
ReferenceTimes == {0, 24}

\* the process at rest, as NewApp leaves it
AtRest ==
    /\ now = 0
    /\ items = <<>>
    /\ nextID = 1
    /\ hasDB = FALSE
    /\ failing = {}
    /\ pending = {}
    /\ dbItems = [id \in 1 .. MaxID |-> NoRow]
    /\ dbSeq = 0
    /\ ntfyURL = ""
    /\ ntfyTopic = ""
    /\ mu = ""
    /\ op = NoOp
    /\ inflight = 0
    /\ ntfyLog = [id \in 1 .. MaxID |-> NoLog]
    /\ resp = NoResp
    /\ sched = "start"
    /\ created = 0
    /\ assigned = 0
    /\ activeUserID = defaultUserID
    /\ hourlyWage = ""
    /\ profiles = [n \in ProfileNames |-> NoProfile]
    /\ owner = [id \in 1 .. MaxID |-> ""]

InitResolver ==
    /\ AtRest
    /\ \E preset \in ResolverPresets, hours \in CustomHoursInputs, date \in DateInputs,
          t \in ReferenceTimes :
          call = [fn |-> "resolvePurchaseAllowedAt", done |-> FALSE,
                  waitPreset |-> preset, waitCustomHours |-> hours,
                  purchaseAllowedRaw |-> date, now |-> t, err |-> "", at |-> 0]

\* the call returns
Resolve ==
    /\ call.fn = "resolvePurchaseAllowedAt"
    /\ ~call.done
    /\ \E r \in resolvePurchaseAllowedAt(call.waitPreset, call.waitCustomHours,
                                         call.purchaseAllowedRaw, "", call.now) :
          call' = [call EXCEPT !.done = TRUE, !.err = r.err, !.at = r.at]
    /\ UNCHANGED <<now, items, nextID, hasDB, failing, pending, dbItems, dbSeq, ntfyURL, ntfyTopic, mu, op,
                   inflight, ntfyLog, resp, sched, created, assigned, activeUserID,
                   hourlyWage, profiles, owner>>

NextResolver == Resolve

SpecResolver == InitResolver /\ [][NextResolver]_vars

\* The dashboard statistics on their own: every list of up to MaxListed
\* items of every status, with a price value and with or without the flag
\* that says the price text parsed.
MaxListed == 3
PriceValues == {50, 100}
Statuses == {"Waiting", "Ready to buy", "Bought", "Skipped"}
PricedItems == [Status : Statuses, PriceValue : PriceValues, HasPriceValue : BOOLEAN]

\* variant: every skipped item counts with its price value
RECURSIVE buildDashboardStatsAnyPrice(_)
buildDashboardStatsAnyPrice(list) ==
    IF list = <<>> THEN [skippedCount |-> 0, savedAmount |-> 0]
    ELSE LET n == Len(list)
             item == list[n]
             sofar == buildDashboardStatsAnyPrice(SubSeq(list, 1, n - 1))
         IN IF item.Status = "Skipped"
            THEN [skippedCount |-> sofar.skippedCount + 1,
                  savedAmount |-> sofar.savedAmount + item.PriceValue]
            ELSE sofar

\* skippedCount and savedAmount of buildDashboardStats: the loop over the
\* items in their order
RECURSIVE buildDashboardStats(_)
buildDashboardStats(list) ==
    IF list = <<>> THEN [skippedCount |-> 0, savedAmount |-> 0]
    ELSE LET n == Len(list)
             item == list[n]
             sofar == buildDashboardStats(SubSeq(list, 1, n - 1))
         IN IF item.Status = "Skipped"
            THEN [skippedCount |-> sofar.skippedCount + 1,
                  savedAmount |-> IF item.HasPriceValue
                                  THEN sofar.savedAmount + item.PriceValue
                                  ELSE sofar.savedAmount]
            ELSE sofar

InitDashboard ==
    /\ AtRest
    /\ \E n \in 0 .. MaxListed : \E list \in [1 .. n -> PricedItems] :
          call = [fn |-> "buildDashboardStats", done |-> FALSE, items |-> list,
                  skippedCount |-> 0, savedAmount |-> 0]

\* the call returns
BuildStats ==
    /\ call.fn = "buildDashboardStats"
    /\ ~call.done
    /\ \E r \in {buildDashboardStats(call.items)} :
          call' = [call EXCEPT !.done = TRUE, !.skippedCount = r.skippedCount,
                               !.savedAmount = r.savedAmount]
    /\ UNCHANGED <<now, items, nextID, hasDB, failing, pending, dbItems, dbSeq, ntfyURL, ntfyTopic, mu, op,
                   inflight, ntfyLog, resp, sched, created, assigned, activeUserID,
                   hourlyWage, profiles, owner>>

NextDashboard == BuildStats

SpecDashboard == InitDashboard /\ [][NextDashboard]_vars

\* The dashboard query on its own, with the default sort and the status
\* filter: every list of up to MaxSorted items with distinct IDs, of every
\* status, two eligibility instants and two creation times.
MaxSorted == 3
SortedTimes == {0, 24}
CreationTimes == {0, 1}
StatusFilters == {{}, {"Waiting", "Ready to buy"}, Statuses}
allStatuses == <<"Waiting", "Ready to buy", "Bought", "Skipped">>

ListedItem(id, status, at, createdAt) ==
    [ID |-> id, Status |-> status, PurchaseAllowedAt |-> at, CreatedAt |-> createdAt]

\* time.Time.Compare
Compare(t, u) == IF t < u THEN -1 ELSE IF t > u THEN 1 ELSE 0

statusRank(status) ==
    CASE status = "Ready to buy" -> 0
      [] status = "Waiting" -> 1
      [] OTHER -> 2

\* variant: the open items are ordered by their creation, newest first
compareNewestFirst(a, b) ==
    LET rank == statusRank(a.Status) - statusRank(b.Status)
        newest == Compare(b.CreatedAt, a.CreatedAt)
    IN IF rank # 0 THEN (IF rank < 0 THEN -1 ELSE 1)
       ELSE IF newest # 0 THEN newest
       ELSE b.ID - a.ID

\* the comparison function of the default sort
compareNextReady(a, b) ==
    LET rank == statusRank(a.Status) - statusRank(b.Status)
        eligible == Compare(a.PurchaseAllowedAt, b.PurchaseAllowedAt)
        newest == Compare(b.CreatedAt, a.CreatedAt)
    IN IF rank # 0 THEN (IF rank < 0 THEN -1 ELSE 1)
       ELSE IF a.Status \in {"Ready to buy", "Waiting"} /\ eligible # 0 THEN eligible
       ELSE IF a.Status \notin {"Ready to buy", "Waiting"} /\ newest # 0 THEN newest
       ELSE IF newest # 0 THEN newest
       ELSE b.ID - a.ID

\* slices.SortStableFunc: each item goes behind the items it does not
\* precede
RECURSIVE InsertStable(_, _)
InsertStable(sorted, item) ==
    IF sorted = <<>> THEN <<item>>
    ELSE IF compareNextReady(item, sorted[1]) < 0 THEN <<item>> \o sorted
    ELSE <<sorted[1]>> \o InsertStable(Tail(sorted), item)

RECURSIVE SortStable(_)
SortStable(list) ==
    IF list = <<>> THEN <<>>
    ELSE InsertStable(SortStable(SubSeq(list, 1, Len(list) - 1)), list[Len(list)])

\* filterAndSortItems with no search text, no tag and the default sort
filterAndSortItems(list, statuses) ==
    LET hasStatusFilter == Cardinality(statuses) > 0 /\ Cardinality(statuses) < Len(allStatuses)
        Passes(item) == ~(hasStatusFilter /\ item.Status \notin statuses)
    IN SortStable(SelectSeq(list, Passes))

\* the lists of n items whose IDs are 1 .. n in some order
ListsOf(n) ==
    {list \in [1 .. n -> [ID : 1 .. n, Status : Statuses, PurchaseAllowedAt : SortedTimes,
                          CreatedAt : CreationTimes]] :
        \A i, j \in 1 .. n : i # j => list[i].ID # list[j].ID}

InitSort ==
    /\ AtRest
    /\ \E n \in 0 .. MaxSorted : \E list \in ListsOf(n) : \E statuses \in StatusFilters :
          call = [fn |-> "filterAndSortItems", done |-> FALSE, items |-> list,
                  statuses |-> statuses, result |-> <<>>]

\* the call returns
FilterAndSort ==
    /\ call.fn = "filterAndSortItems"
    /\ ~call.done
    /\ call' = [call EXCEPT !.done = TRUE,
                            !.result = filterAndSortItems(call.items, call.statuses)]
    /\ UNCHANGED <<now, items, nextID, hasDB, failing, pending, dbItems, dbSeq, ntfyURL, ntfyTopic, mu, op,
                   inflight, ntfyLog, resp, sched, created, assigned, activeUserID,
                   hourlyWage, profiles, owner>>

NextSort == FilterAndSort

SpecSort == InitSort /\ [][NextSort]_vars

\* ---------------------------------------------------------------- restart
\* the rows of the default profile in a store db, ORDER BY id DESC
RECURSIVE RowsOf(_, _)
RowsOf(db, k) ==
    IF k = 0 THEN <<>>
    ELSE (IF owner[k] = defaultUserID /\ db[k] # NoRow THEN <<db[k]>> ELSE <<>>)
         \o RowsOf(db, k - 1)

\* the store as a sweep running from index i on can leave it when the
\* process dies: before a promotion, between updatePromotedItemLocked and
\* markNtfyAttemptedLocked, after both and before client.Do
RECURSIVE CrashPoints(_, _, _)
CrashPoints(st, i, t) ==
    IF i > Len(st.items) THEN {st.db}
    ELSE IF st.items[i].Status # "Waiting" THEN CrashPoints(st, i + 1, t)
    ELSE IF ~(st.items[i].PurchaseAllowedAt > t)
    THEN LET ready == [st EXCEPT !.items[i].Status = "Ready to buy"]
             saved == [ready EXCEPT !.db = updatePromotedItemLocked(ready.db, ready.items[i])]
             sent == sendNtfyNotificationLocked(saved, saved.items[i])
         IN {st.db, saved.db, sent.db}
            \cup (IF sent.sent THEN {} ELSE CrashPoints(sent, i + 1, t))
    ELSE CrashPoints(st, i + 1, t)

\* the transitions (item, eligibility instant) a request has gone out for
Requested ==
    (IF call.fn = "newAppWithDB" THEN call.requested ELSE {})
    \cup {<<items[i].ID, items[i].PurchaseAllowedAt>> :
             i \in {j \in 1 .. Len(items) : ntfyLog[items[j].ID].requests >= 1}}

\* the process dies, at rest or within a sweep, and main starts it again on
\* the same store: newAppWithDB builds a fresh App, loads the default
\* profile and starts the scheduler
newAppWithDB ==
    /\ hasDB
    /\ \E db \in CrashPoints(SweepState(items, dbItems),
                             IF inflight # 0 THEN op.idx + 1 ELSE 1,
                             IF inflight # 0 THEN op.t ELSE now) :
       \E rows \in {RowsOf(db, MaxID)} :
       \E row \in {profiles[defaultUserID]} :
          /\ dbItems' = db
          /\ items' = rows
          /\ nextID' = IF rows = <<>> THEN 1 ELSE rows[1].ID + 1
          /\ hourlyWage' = IF row.exists THEN row.hourlyWage ELSE ""
          /\ ntfyURL' = IF row.exists THEN row.ntfyURL ELSE ""
          /\ ntfyTopic' = IF row.exists THEN row.ntfyTopic ELSE ""
          /\ ntfyLog' = [id \in DOMAIN ntfyLog |->
                            IF \E i \in 1 .. Len(rows) : rows[i].ID = id
                            THEN ntfyLog[id] ELSE NoLog]
    /\ activeUserID' = defaultUserID
    /\ mu' = ""
    /\ op' = NoOp
    /\ inflight' = 0
    /\ sched' = "start"
    /\ call' = [fn |-> "newAppWithDB", done |-> TRUE, requested |-> Requested]
    /\ resp' = Resp("restart", 0, "", 0)
    /\ UNCHANGED <<now, hasDB, failing, pending, profiles, owner, dbSeq, created, assigned>>

\* A process on a loaded store that dies and is started again at any point,
\* with the sweeps of the scheduler and of the page loads, and the snoozes
\* that open a new transition.
NextRestart ==
    \/ \E d \in TickSteps : Tick(d)
    \/ BackgroundPromotion
    \/ TickerFires
    \/ RenderView
    \/ \E id \in 0 .. MaxID, p \in SnoozeInputs : snoozeItem(id, p)
    \/ \E o \in HttpOutcomes : HttpReturn(o)
    \/ newAppWithDB

SpecRestart == InitLoaded /\ [][NextRestart]_vars

\* ----------------------------------------------------------- store faults
\* the store starts or stops refusing writes of the sweep (a locked or full
\* database): db.Exec returns an error for the statements in s
StoreFault(s) ==
    /\ hasDB
    /\ failing # s
    /\ failing' = s
    /\ resp' = NoResp
    /\ UNCHANGED <<now, items, nextID, hasDB, pending, call, dbItems, dbSeq, ntfyURL, ntfyTopic,
                   mu, op, inflight, ntfyLog, sched, created, assigned, activeUserID,
                   hourlyWage, profiles, owner>>

\* The sweeps of the scheduler and of the page loads on a loaded store whose
\* writes fail at times.
NextStoreFault ==
    \/ \E d \in TickSteps : Tick(d)
    \/ BackgroundPromotion
    \/ TickerFires
    \/ RenderView
    \/ \E o \in HttpOutcomes : HttpReturn(o)
    \/ \E s \in SUBSET SweepWrites : StoreFault(s)

SpecStoreFault == InitLoaded /\ [][NextStoreFault]_vars

\* The profile requests of several clients at once on a fresh process: the
\* deletes and the saves run in two steps, before and after they take a.mu,
\* and any request may run in between.
NextConcurrent ==
    \/ \E n \in ProfileNameInputs : switchProfile(n)
    \/ deleteProfileCheck
    \/ \E k \in 1 .. MaxPending : deleteProfileDelete(k)
    \/ \E w \in WageInputs, e \in NtfyEndpoints, tp \in NtfyTopics : saveProfileRead(w, e, tp)
    \/ \E k \in 1 .. MaxPending : saveProfileSave(k)
    \/ \E f \in Forms : createItem(f)

SpecConcurrent == Init /\ [][NextConcurrent]_vars

\* The scheduler and the handlers on one lock, on a loaded store whose
\* inserts fail at times: requests of every kind keep arriving. The
\* goroutine blocked in a.mu.Lock() gets the lock when it is released again
\* and again (sync.Mutex hands over to a waiter that has waited 1 ms), the
\* ticker keeps delivering, and client.Do returns within the 2 s timeout.
NextLock ==
    \/ BackgroundPromotion
    \/ TickerFires
    \/ RenderView
    \/ \E id \in 0 .. MaxID, s \in StatusInputs : updateItemStatus(id, s)
    \/ \E f \in Forms : createItem(f)
    \/ \E o \in HttpOutcomes : HttpReturn(o)
    \/ \E s \in {{}, {"insertItemLocked"}} : StoreFault(s)

SpecLock ==
    /\ InitLoaded
    /\ [][NextLock]_vars
    /\ SF_vars(BackgroundPromotion)
    /\ WF_vars(TickerFires)
    /\ WF_vars(\E o \in HttpOutcomes : HttpReturn(o))

\* ----------------------------------------------------------------- claims
\* the list and the reference time of the sweep a step completes: the
\* handler's own when it ran without blocking, those it saved otherwise
SweepBefore == IF mu = "" THEN items ELSE op.before
SweepTime == IF mu = "" THEN now ELSE op.t

\* the status the sweep with reference time t gives an item
SweptStatus(item, t) ==
    IF item.Status = "Waiting" /\ item.PurchaseAllowedAt <= t
    THEN "Ready to buy" ELSE item.Status

\* C1: a status-set request to Bought or Skipped succeeds only when the
\* target item, after the sweep the request runs, is Ready to buy, and then
\* the item takes the requested status; when the item is Waiting with its
\* eligibility in the future, Bought or Skipped, the request is answered
\* 409 and the item's status stays what it was.
C1_StatusSetOnlyFromReady ==
    [][resp'.op = "status" /\ resp'.code \in {303, 409} =>
        LET i == IndexOfID(items, resp'.id)
            j == IndexOfID(items', resp'.id)
        IN /\ i # 0
           /\ j # 0
           /\ (resp'.code = 303) = (SweptStatus(items[i], SweepTime) = "Ready to buy")
           /\ resp'.code = 303 =>
                /\ resp'.arg \in {"Bought", "Skipped"}
                /\ items'[j].Status = resp'.arg
           /\ resp'.code = 409 =>
                /\ SweptStatus(items[i], SweepTime) \in {"Waiting", "Bought", "Skipped"}
                /\ items'[j].Status = items[i].Status
    ]_vars

\* a status-set request has just moved an item from Ready to buy to Skipped
C1_Witness ==
    /\ resp.op = "status"
    /\ resp.code = 303
    /\ resp.arg = "Skipped"
    /\ \E i \in 1 .. Len(items) : items[i].ID = resp.id /\ items[i].Status = "Skipped"

\* C2 as stated: for a promotion of an item under a non-blank endpoint and
\* topic, exactly one notification request has been issued, whatever the
\* sweeps that followed and whatever the outcome of the delivery.
C2_ExactlyOneRequestWhenConfigured ==
    \A id \in DOMAIN ntfyLog :
        ntfyLog[id].promo \in {"ok", "unparsable"} => ntfyLog[id].requests = 1

\* C2 amended: for a promotion of an item, at most one notification request
\* is ever issued; under a non-blank endpoint and topic it is exactly one
\* when "<endpoint>/<topic>" parses as a URL, and none when it does not
\* (http.NewRequest fails and the attempt ends there), whatever the sweeps
\* that followed and whatever the outcome of the delivery.
C2_OneRequestWhenUrlParses ==
    \A id \in DOMAIN ntfyLog :
        /\ ntfyLog[id].requests <= 1
        /\ ntfyLog[id].promo = "ok" => ntfyLog[id].requests = 1
        /\ ntfyLog[id].promo = "unparsable" => ntfyLog[id].requests = 0

\* an item promoted under working settings has had its one request, was then
\* skipped, and a page load has swept the list again
C2_Witness ==
    /\ resp.op = "view"
    /\ inflight = 0
    /\ \E i \in 1 .. Len(items) :
          /\ items[i].Status = "Skipped"
          /\ ntfyLog[items[i].ID].promo = "ok"
          /\ ntfyLog[items[i].ID].requests = 1

\* C3 as stated: no notification request is in flight while a.mu is held.
C3_NoRequestUnderLock ==
    inflight # 0 => mu = ""

\* C4: whenever a notification request is in flight, the item it is for has
\* NtfyAttempted set in a.items and, with a store, in its row: the flag is
\* set and written before client.Do is called.
C4_FlagSetBeforeRequest ==
    inflight # 0 =>
        /\ \E i \in 1 .. Len(items) : items[i].ID = inflight /\ items[i].NtfyAttempted
        /\ hasDB => dbItems[inflight].NtfyAttempted

\* a request is in flight for an item of an App that has a store
C4_Witness ==
    /\ inflight # 0
    /\ hasDB
    /\ dbItems[inflight].Status = "Ready to buy"

\* C5: when a sweep with reference time t ends, every item that was Waiting
\* with PurchaseAllowedAt <= t is Ready to buy, every item that was Waiting
\* with PurchaseAllowedAt > t is still Waiting, and every item that was
\* Ready to buy, Bought or Skipped has the status it had.
C5_SweepPromotesExactlyElapsed ==
    [][resp'.op \in {"tick", "view"} =>
        /\ Len(items') = Len(SweepBefore)
        /\ \A i \in 1 .. Len(SweepBefore) :
              LET was == SweepBefore[i]
              IN /\ items'[i].ID = was.ID
                 /\ was.Status = "Waiting" /\ was.PurchaseAllowedAt <= SweepTime
                      => items'[i].Status = "Ready to buy"
                 /\ was.Status = "Waiting" /\ was.PurchaseAllowedAt > SweepTime
                      => items'[i].Status = "Waiting"
                 /\ was.Status \in {"Ready to buy", "Bought", "Skipped"}
                      => items'[i].Status = was.Status
    ]_vars

\* a scheduler tick has ended that promoted one item at the very instant of
\* its eligibility and left another waiting
C5_Witness ==
    /\ resp.op = "tick"
    /\ \E i, j \in 1 .. Len(items) :
          /\ items[i].Status = "Ready to buy"
          /\ items[i].PurchaseAllowedAt = now
          /\ ntfyLog[items[i].ID].promo # "none"
          /\ items[j].Status = "Waiting"
          /\ items[j].PurchaseAllowedAt > now

\* C6: the sweep is idempotent: from any list the program holds and for any
\* reference time t, a second sweep with t changes no status and no flag and
\* issues no request, so two sweeps leave the list and the number of
\* requests of one.
C6_SweepIdempotent ==
    mu = "" =>
        \A t \in 0 .. MaxTime :
            LET once == SweepToEnd(items, dbItems, 1, t, 0)
                twice == SweepToEnd(once.items, once.db, 1, t, 0)
            IN /\ twice.items = once.items
               /\ twice.db = once.db
               /\ once.requests + twice.requests = once.requests

\* the clock has reached the instant of two waiting items: the sweep of
\* this list promotes both and issues a request for each
C6_Witness ==
    /\ mu = ""
    /\ now > 0
    /\ Len(items) = 2
    /\ \A i \in 1 .. Len(items) :
          items[i].Status = "Waiting" /\ items[i].PurchaseAllowedAt = now
    /\ SweepToEnd(items, dbItems, 1, now, 0).requests = 2

\* the item an edit answered with 303 has replaced, and the item it left
EditedBefore == items[IndexOfID(items, resp'.id)]
EditedAfter == items'[IndexOfID(items', resp'.id)]
EditDone == resp'.op = "edit" /\ resp'.code = 303

C9_ActiveItemRederived ==
    [][EditDone /\ EditedBefore.Status \in {"Waiting", "Ready to buy"} =>
         /\ EditedAfter.Status =
              IF EditedAfter.PurchaseAllowedAt > now THEN "Waiting" ELSE "Ready to buy"
         /\ EditedAfter.NtfyAttempted =
              IF EditedAfter.Status = "Waiting" THEN FALSE
              ELSE EditedBefore.NtfyAttempted]_vars

\* a Waiting item has just been edited to be eligible at the very instant
\* of the edit
C9_Witness ==
    /\ resp.op = "edit"
    /\ resp.code = 303
    /\ resp.arg = "Waiting"
    /\ now > 0
    /\ \E i \in 1 .. Len(items) :
          /\ items[i].ID = resp.id
          /\ items[i].Status = "Ready to buy"
          /\ items[i].PurchaseAllowedAt = now

\* C10: a created item is Waiting if its eligibility instant is strictly
\* after the creation reference time and Ready to buy otherwise, equality
\* included; it is never Bought or Skipped, and its NtfyAttempted is false.
C10_CreatedStatus ==
    [][resp'.op = "create" /\ resp'.code = 303 =>
         /\ Len(items') = Len(items) + 1
         /\ items'[1].ID = resp'.id
         /\ items'[1].Status =
              IF items'[1].PurchaseAllowedAt > now THEN "Waiting" ELSE "Ready to buy"
         /\ items'[1].Status \notin {"Bought", "Skipped"}
         /\ ~items'[1].NtfyAttempted]_vars

\* an item has just been created eligible at the very instant of its
\* creation
C10_Witness ==
    /\ resp.op = "create"
    /\ resp.code = 303
    /\ now > 0
    /\ Len(items) > 0
    /\ items[1].ID = resp.id
    /\ items[1].Status = "Ready to buy"
    /\ items[1].PurchaseAllowedAt = now
    /\ ~items[1].NtfyAttempted

\* the item a request answered 303 or 409 was for, before and after the step
TargetBefore == items[IndexOfID(items, resp'.id)]
TargetAfter == items'[IndexOfID(items', resp'.id)]

\* C11: a snooze of an item that is Ready to buy at time now sets its
\* PurchaseAllowedAt to max(previous PurchaseAllowedAt, now) + 24 hours,
\* which is more than 23 hours after now, its status to Waiting and its
\* NtfyAttempted to false.
C11_SnoozePushesEligibility ==
    [][resp'.op = "snooze" /\ resp'.code = 303 =>
        /\ SweptStatus(TargetBefore, SweepTime) = "Ready to buy"
        /\ TargetAfter.PurchaseAllowedAt =
             (IF TargetBefore.PurchaseAllowedAt > SweepTime
              THEN TargetBefore.PurchaseAllowedAt ELSE SweepTime) + 24
        /\ TargetAfter.PurchaseAllowedAt > SweepTime + 23
        /\ TargetAfter.Status = "Waiting"
        /\ ~TargetAfter.NtfyAttempted
    ]_vars

\* an item whose instant had passed a day before has just been snoozed:
\* it waits until 24 hours from now
C11_Witness ==
    /\ resp.op = "snooze"
    /\ resp.code = 303
    /\ now > 0
    /\ \E i \in 1 .. Len(items) :
          /\ items[i].ID = resp.id
          /\ items[i].Status = "Waiting"
          /\ items[i].PurchaseAllowedAt = now + 24
          /\ ~items[i].NtfyAttempted

\* C12: a snooze request for an item that after the request's sweep is
\* Waiting, Bought or Skipped is answered 409, and the item keeps its
\* status, its PurchaseAllowedAt and its NtfyAttempted.
C12_SnoozeConflictChangesNothing ==
    [][resp'.op = "snooze" /\ resp'.code \in {303, 409} =>
        /\ IndexOfID(items, resp'.id) # 0
        /\ IndexOfID(items', resp'.id) # 0
        /\ SweptStatus(TargetBefore, SweepTime) \in {"Waiting", "Bought", "Skipped"}
             => /\ resp'.code = 409
                /\ TargetAfter.Status = TargetBefore.Status
                /\ TargetAfter.PurchaseAllowedAt = TargetBefore.PurchaseAllowedAt
                /\ TargetAfter.NtfyAttempted = TargetBefore.NtfyAttempted
    ]_vars

\* a snooze of an item still waiting for its instant has just been refused
C12_Witness ==
    /\ resp.op = "snooze"
    /\ resp.code = 409
    /\ \E i \in 1 .. Len(items) :
          /\ items[i].ID = resp.id
          /\ items[i].Status = "Waiting"
          /\ items[i].PurchaseAllowedAt > now

\* C13 as stated: once an item was snoozed after a request had been issued
\* for it, each later promotion of the item issues exactly one request, and
\* no other follows until the item waits again.
C13_OneRequestAfterSnooze ==
    \A id \in DOMAIN ntfyLog :
        ntfyLog[id].snoozed /\ ntfyLog[id].promo # "none" => ntfyLog[id].requests = 1

\* C13 amended: once an item was snoozed after a request had been issued for
\* it, each later promotion of the item issues at most one request, and no
\* other follows until the item waits again: exactly one when at that
\* promotion endpoint and topic are set and "<endpoint>/<topic>" parses as a
\* URL, none when the settings have been cleared or do not parse.
C13_OneRequestAfterSnoozeWhenConfigured ==
    \A id \in DOMAIN ntfyLog :
        ntfyLog[id].snoozed =>
            /\ ntfyLog[id].requests <= 1
            /\ ntfyLog[id].promo = "ok" => ntfyLog[id].requests = 1
            /\ ntfyLog[id].promo \in {"blank", "unparsable"} => ntfyLog[id].requests = 0

\* an item notified, snoozed and promoted again has had its one new
\* request; the request has returned and a page load has swept again
C13_Witness ==
    /\ resp.op = "view"
    /\ inflight = 0
    /\ \E i \in 1 .. Len(items) :
          /\ items[i].Status = "Ready to buy"
          /\ items[i].NtfyAttempted
          /\ ntfyLog[items[i].ID].snoozed
          /\ ntfyLog[items[i].ID].promo = "ok"
          /\ ntfyLog[items[i].ID].requests = 1

\* C14: each of create, edit, status-set, snooze and delete runs the sweep
\* before its change: when such a request has completed at time t, no item
\* of the list is Waiting with an eligibility instant at or before t.
C14_SweepBeforeEveryChange ==
    [][resp'.op \in {"create", "edit", "status", "snooze", "delete"} /\ resp'.code = 303 =>
        \A i \in 1 .. Len(items') :
            ~(items'[i].Status = "Waiting" /\ items'[i].PurchaseAllowedAt <= SweepTime) ]_vars

\* a Waiting item whose eligibility instant is at or before t
Elapsed(item, t) == item.Status = "Waiting" /\ item.PurchaseAllowedAt <= t

Due(id) == \E i \in 1 .. Len(items) : items[i].ID = id /\ Elapsed(items[i], now)

\* the item of the given ID is in the list and Ready to buy
Promoted(id) == \E i \in 1 .. Len(items) : items[i].ID = id /\ items[i].Status = "Ready to buy"

\* C16: with the scheduler running and no HTTP request arriving, every
\* Waiting item whose eligibility instant has passed is eventually Ready to
\* buy, and the first sweep runs at scheduler start, before any tick: the
\* goroutine leaves its start only by completing a sweep, and does so.
C16_SchedulerPromotesEventually ==
    /\ \A id \in 1 .. MaxID : Due(id) ~> Promoted(id)
    /\ <>(sched = "idle")
    /\ [][sched = "start" /\ sched' # "start" =>
            /\ sched' = "idle"
            /\ resp'.op = "tick"
            /\ \A i \in 1 .. Len(items') : ~Elapsed(items'[i], SweepTime) ]_vars

\* the scheduler's sweep has promoted an item whose instant passed after the
\* start, a second item is still waiting
C16_Witness ==
    /\ sched = "idle"
    /\ resp.op = "tick"
    /\ now > 0
    /\ \E i \in 1 .. Len(items) :
          /\ items[i].Status = "Ready to buy"
          /\ items[i].PurchaseAllowedAt = now
    /\ \E i \in 1 .. Len(items) :
          /\ items[i].Status = "Waiting"
          /\ items[i].PurchaseAllowedAt > now

\* the item is as it was, or the sweep with reference time t promoted it
KeptOrPromoted(was, item, t) ==
    \/ item = was
    \/ /\ Elapsed(was, t)
       /\ item.Status = "Ready to buy"
       /\ [item EXCEPT !.Status = was.Status, !.NtfyAttempted = was.NtfyAttempted] = was

\* C17: a create, edit or profile-save request rejected with a validation
\* error changes no state: the list keeps its items in their order, each
\* with every field as it was, and the settings and the ID counters stay;
\* the only change is the promotion of elapsed Waiting items by the sweep
\* run when the item form is rendered again.
C17_RejectionChangesNothing ==
    [][resp'.op \in {"create", "edit", "profile"} /\ resp'.code = 400 =>
        /\ Len(items') = Len(SweepBefore)
        /\ \A i \in 1 .. Len(items') : KeptOrPromoted(SweepBefore[i], items'[i], SweepTime)
        /\ ~resp'.rendered => items' = items /\ dbItems' = dbItems
        /\ \A id \in DOMAIN dbItems : (dbItems'[id] = NoRow) = (dbItems[id] = NoRow)
        /\ ntfyURL' = ntfyURL
        /\ ntfyTopic' = ntfyTopic
        /\ hourlyWage' = hourlyWage
        /\ profiles' = profiles
        /\ nextID' = nextID
        /\ dbSeq' = dbSeq ]_vars

\* a create rejected for its form, answered with the form and a list whose
\* item the sweep has found elapsed
C17_Witness ==
    /\ resp.op = "create"
    /\ resp.code = 400
    /\ resp.rendered
    /\ now > 0
    /\ ntfyURL # ""
    /\ \E i \in 1 .. Len(items) :
          /\ items[i].Status = "Ready to buy"
          /\ items[i].PurchaseAllowedAt = now

\* the eligibility instant of the item of the given ID, -1 when the list
\* has no such item
InstantOf(list, id) ==
    IF IndexOfID(list, id) = 0 THEN -1 ELSE list[IndexOfID(list, id)].PurchaseAllowedAt

\* C18: an item's eligibility instant is set by its create and changes only
\* in an edit or a snooze of that item: the sweep, a status-set, the delete
\* of another item, a profile save and every request for another item leave
\* it as it was.
C18_InstantChangesOnlyByEditOrSnooze ==
    [][\A id \in 1 .. MaxID :
          /\ InstantOf(items, id) # -1 /\ InstantOf(items', id) # -1
          /\ InstantOf(items', id) # InstantOf(items, id)
          => /\ resp'.op \in {"edit", "snooze"}
             /\ resp'.id = id
             /\ resp'.code = 303 ]_vars

\* the second of two items has been snoozed after the sweep of the request
\* promoted both, the first keeps its instant
C18_Witness ==
    /\ resp.op = "snooze"
    /\ resp.code = 303
    /\ Len(items) = 2
    /\ resp.id = items[2].ID
    /\ items[2].PurchaseAllowedAt = now + SnoozeHours
    /\ items[1].Status = "Ready to buy"
    /\ items[1].PurchaseAllowedAt = now
    /\ ~items[1].NtfyAttempted

\* the IDs of the list are pairwise distinct
DistinctIDs(list) ==
    \A i, j \in 1 .. Len(list) : list[i].ID = list[j].ID => i = j

\* C19: over the creates and deletes of a profile the IDs of the list stay
\* pairwise distinct, and the ID a create assigns is strictly greater than
\* every ID an item of the profile had before, deleted items included.
C19_NewIDAboveEveryEarlier ==
    [][/\ DistinctIDs(items')
       /\ resp'.op = "create" /\ resp'.code = 303 =>
             /\ items'[1].ID = resp'.id
             /\ resp'.id > assigned
             /\ \A i \in 1 .. Len(items) : resp'.id > items[i].ID
             /\ assigned' = resp'.id
       /\ assigned' >= assigned ]_vars

\* the loaded items, IDs 1 .. MaxLoaded, have all been deleted and an item
\* created since: it has the next ID
C19_Witness ==
    /\ resp.op = "create"
    /\ resp.code = 303
    /\ Len(items) = 1
    /\ assigned = MaxLoaded + 1
    /\ dbSeq = MaxLoaded + 1
    /\ items[1].ID = MaxLoaded + 1

\* the items of the list but the one of the given ID, in their order
Without(list, id) ==
    LET Other(item) == item.ID # id
    IN SelectSeq(list, Other)

C21_NtfyBothOrNeither ==
    /\ (ntfyURL = "") = (ntfyTopic = "")
    /\ \A n \in ProfileNames : (profiles[n].ntfyURL = "") = (profiles[n].ntfyTopic = "")

\* a switch has loaded a stored profile whose notification settings are set,
\* while another stored profile has none
C21_Witness ==
    /\ resp.op = "switch"
    /\ resp.code = 303
    /\ hasDB
    /\ ntfyURL # ""
    /\ ntfyTopic # ""
    /\ \E n \in ProfileNames :
          n # activeUserID /\ profiles[n].exists /\ profiles[n].ntfyURL = ""


\* the profiles that exist: the names with a stored profile or stored items;
\* a process without a store has the active profile and no other
ExistingProfiles ==
    IF hasDB
    THEN {n \in ProfileNames : profiles[n].exists}
         \cup {owner[id] : id \in {i \in 1 .. MaxID : dbItems[i] # NoRow}}
    ELSE {currentUserIDLocked}

\* C22: a delete-profile request while only one profile exists is answered
\* with a conflict, and the active profile, its settings, its items and the
\* store are as before.
C22_LastProfileIsKept ==
    [][resp'.op = "deleteprofile" /\ Cardinality(ExistingProfiles) <= 1 =>
        /\ resp'.code = 409
        /\ UNCHANGED <<activeUserID, hourlyWage, ntfyURL, ntfyTopic, items, nextID,
                       profiles, dbItems>> ]_vars

\* the delete of the only stored profile, which has an item, was refused
C22_Witness ==
    /\ resp.op = "deleteprofile"
    /\ resp.code = 409
    /\ hasDB
    /\ activeUserID = "Alice"
    /\ profiles["Alice"].exists
    /\ ExistingProfiles = {"Alice"}
    /\ Len(items) = 1


\* the IDs of the items of a list
IDsOf(list) == {list[i].ID : i \in 1 .. Len(list)}

\* C23: after a switch of the active profile to a name, the list holds
\* exactly the items of that profile and no item created under another one,
\* with and without a store.
C23_SwitchSwapsItems ==
    [][resp'.op = "switch" /\ resp'.code = 303 =>
        /\ \A id \in IDsOf(items') : owner[id] = resp'.arg
        /\ hasDB => IDsOf(items') =
                       {id \in 1 .. MaxID : owner[id] = resp'.arg /\ dbItems[id] # NoRow} ]_vars


\* C24: after a switch to another name that has no stored profile, the active
\* settings hold the defaults and not the values of the profile that was
\* active before, and nothing of those is written under the new name.
C24_UnknownProfileStartsFromDefaults ==
    [][/\ resp'.op = "switch"
       /\ resp'.code = 303
       /\ resp'.arg # currentUserIDLocked
       /\ ~profiles[resp'.arg].exists
       =>
        /\ hourlyWage' \in {"", defaultProfileHourlyWage}
        /\ ntfyURL' = ""
        /\ ntfyTopic' = ""
        /\ profiles'[resp'.arg].ntfyURL = ""
        /\ profiles'[resp'.arg].ntfyTopic = "" ]_vars


\* the item of a list with the given ID, NoRow when the list has none
ItemOf(list, id) ==
    IF IndexOfID(list, id) = 0 THEN NoRow ELSE list[IndexOfID(list, id)]

\* the step takes the item from Waiting, or from outside the list, to
\* Ready to buy
EntersReady(id) ==
    /\ ItemOf(items, id).Status \in {"", "Waiting"}
    /\ ItemOf(items', id).Status = "Ready to buy"

\* the step has made the one notification attempt for the item: the flag is
\* set, and one request went out if the settings allow one, none otherwise
AttemptedOnce(id) ==
    /\ ~ItemOf(items, id).NtfyAttempted
    /\ ItemOf(items', id).NtfyAttempted
    /\ ntfyLog'[id].promo = NtfySettings
    /\ ntfyLog'[id].requests = IF NtfySettings = "ok" THEN 1 ELSE 0

\* C25 as stated: every time an item enters Ready to buy, by the sweep, by a
\* creation with an elapsed instant or by an edit of a Waiting item, one
\* notification attempt is made and its flag becomes true.
C25_EveryEntryIsAttempted ==
    [][\A id \in 1 .. MaxID : EntersReady(id) => AttemptedOnce(id)]_vars

\* C25: every time the sweep takes an item from Waiting to Ready to buy, one
\* notification attempt is made for it and its flag becomes true; an item
\* that enters Ready to buy by its creation or by an edit gets no attempt
\* and no request, and its flag stays false.
C25_SweepEntryIsAttempted ==
    [][\A id \in 1 .. MaxID : EntersReady(id) =>
          IF resp'.op \in {"create", "edit"} /\ resp'.code = 303 /\ resp'.id = id
          THEN /\ ~ItemOf(items', id).NtfyAttempted
               /\ ntfyLog'[id].requests = 0
               /\ inflight' = inflight
          ELSE AttemptedOnce(id) ]_vars

\* the scheduler's sweep has promoted the item and waits for the answer to
\* the one request it sent for it
C25_Witness ==
    /\ inflight # 0
    /\ op.kind = "tick"
    /\ ItemOf(items, inflight).Status = "Ready to buy"
    /\ ItemOf(items, inflight).NtfyAttempted
    /\ ntfyLog[inflight].requests = 1


\* C26: when the endpoint or the topic is blank at the time of a sweep, the
\* sweep sends no request, and every Waiting item whose instant has passed
\* is still promoted to Ready to buy with its flag set, in the list and, if
\* there is one, in the store.
C26_BlankSettingsPromoteSilently ==
    [][resp'.op \in {"tick", "view"} /\ (ntfyURL = "" \/ ntfyTopic = "") =>
        /\ inflight' = 0
        /\ \A i \in 1 .. Len(items) :
              Elapsed(items[i], now) =>
                 /\ items'[i].ID = items[i].ID
                 /\ items'[i].Status = "Ready to buy"
                 /\ items'[i].NtfyAttempted
                 /\ hasDB => dbItems'[items[i].ID] = items'[i]
                 /\ ntfyLog'[items[i].ID].requests = 0 ]_vars

\* a tick with blank settings has promoted two items without a request
C26_Witness ==
    /\ resp.op = "tick"
    /\ ntfyURL = ""
    /\ ntfyTopic = ""
    /\ Len(items) = 2
    /\ \A i \in 1 .. 2 :
          /\ items[i].Status = "Ready to buy"
          /\ items[i].NtfyAttempted
          /\ ntfyLog[items[i].ID].promo = "blank"
          /\ ntfyLog[items[i].ID].requests = 0

\* C27 as stated: a change of the hourly wage to 0 or to blank is accepted,
\* and afterwards the work-hours value is displayed for no item.
C27_ZeroOrBlankWageIsAccepted ==
    [][resp'.op = "profile" /\ resp'.arg \in {"0", ""} =>
        /\ resp'.code = 303
        /\ \A price \in PriceInputs :
              ~workHoursAvailable(price, ~parseHourlyWage(hourlyWage').err) ]_vars

\* C27: a change of the hourly wage to 0 or to blank is rejected with a
\* validation error and the wage stays as it was, in memory and in the
\* store; the dashboard displays the work-hours value of an item exactly
\* when its price and the stored wage both parse to a positive number.
C27_ZeroOrBlankWageIsRejected ==
    /\ [][resp'.op = "profile" /\ resp'.arg \in {"0", ""} =>
            /\ resp'.code = 400
            /\ hourlyWage' = hourlyWage
            /\ profiles' = profiles ]_vars
    /\ [](resp.op = "view" /\ resp.rendered =>
            \A price \in PriceInputs :
               workHoursAvailable(price, resp.hasHourlyWage)
                  = (ParseFloat(price).value > 0 /\ ParseFloat(hourlyWage).value > 0))

\* a wage of 0 has been refused for a profile whose wage is 25
C27_Witness ==
    /\ resp.op = "profile"
    /\ resp.arg = "0"
    /\ resp.code = 400
    /\ hourlyWage = "25"
    /\ workHoursAvailable("100", ~parseHourlyWage(hourlyWage).err)


\* the custom-hours texts that are a number above zero, and their value in
\* whole hours
PositiveHours == {"12", "1e-13", "3000000"}
WholeHours(raw) ==
    CASE raw = "12" -> 12
      [] raw = "3000000" -> 3000000
      [] OTHER -> 0

\* C28: the resolver returns reference + 24h, + 168h and + 720h for the
\* presets 24h, 7d and 30d whatever the custom hours, treats an absent preset
\* as 24h, returns reference + hours for preset custom with hours above zero,
\* and fails validation for preset custom with missing, non-numeric, zero or
\* negative hours and for every preset other than 24h, 7d, 30d, custom, date.
C28_ResolverByPreset ==
    call.fn = "resolvePurchaseAllowedAt" /\ call.done =>
        /\ call.waitPreset \in {"", "24h"} => call.err = "" /\ call.at = call.now + 24
        /\ call.waitPreset = "7d" => call.err = "" /\ call.at = call.now + 168
        /\ call.waitPreset = "30d" => call.err = "" /\ call.at = call.now + 720
        /\ call.waitPreset = "custom" /\ call.waitCustomHours \in PositiveHours =>
              call.err = "" /\ call.at = call.now + WholeHours(call.waitCustomHours)
        /\ call.waitPreset = "custom" /\ call.waitCustomHours \notin PositiveHours =>
              call.err # ""
        /\ call.waitPreset \notin {"", "24h", "7d", "30d", "custom", "date"} => call.err # ""


\* the sum of the price values of the items of a list at the given indices
RECURSIVE SumOfPrices(_, _)
SumOfPrices(list, indices) ==
    IF indices = {} THEN 0
    ELSE LET i == CHOOSE j \in indices : TRUE
         IN list[i].PriceValue + SumOfPrices(list, indices \ {i})

\* C29: for every item list the saved total is the sum of the price values
\* of exactly the items that are Skipped and have the has-price-value flag
\* set; the other items and the Skipped items without the flag add nothing.
C29_SavedTotalIsSumOverSkippedPriced ==
    call.fn = "buildDashboardStats" /\ call.done =>
        call.savedAmount =
            SumOfPrices(call.items,
                        {i \in 1 .. Len(call.items) :
                            call.items[i].Status = "Skipped" /\ call.items[i].HasPriceValue})

\* the total of a list of a priced Skipped item, a Skipped item whose price
\* did not parse and a priced Bought item
C29_Witness ==
    /\ call.fn = "buildDashboardStats"
    /\ call.done
    /\ Len(call.items) = 3
    /\ call.items[1] = [Status |-> "Skipped", PriceValue |-> 100, HasPriceValue |-> TRUE]
    /\ call.items[2] = [Status |-> "Skipped", PriceValue |-> 50, HasPriceValue |-> FALSE]
    /\ call.items[3] = [Status |-> "Bought", PriceValue |-> 50, HasPriceValue |-> TRUE]
    /\ call.savedAmount = 100
    /\ call.skippedCount = 2


\* the items of a list that pass the status filter
PassingItems(list, statuses) ==
    {list[i] : i \in {j \in 1 .. Len(list) :
                         statuses \in {{}, Statuses} \/ list[j].Status \in statuses}}

\* the group of the default sort an item is in
Open(item) == item.Status \in {"Ready to buy", "Waiting"}

\* C30: with the default sort the output is a permutation of the items that
\* pass the filters; every Ready to buy item precedes every Waiting item and
\* every Waiting item every Bought or Skipped item; Ready to buy and Waiting
\* items are in ascending eligibility order within their group, Bought and
\* Skipped items in descending creation order; the remaining ties are in
\* descending creation order and then descending ID.
C30_DefaultSortOrder ==
    call.fn = "filterAndSortItems" /\ call.done =>
        LET out == call.result
        IN /\ Len(out) = Cardinality(PassingItems(call.items, call.statuses))
           /\ {out[i] : i \in 1 .. Len(out)} = PassingItems(call.items, call.statuses)
           /\ \A i, j \in 1 .. Len(out) : i < j =>
                 LET a == out[i]
                     b == out[j]
                 IN /\ ~(b.Status = "Ready to buy" /\ a.Status # "Ready to buy")
                    /\ ~(b.Status = "Waiting" /\ ~Open(a))
                    /\ a.Status = b.Status /\ Open(a) =>
                          /\ a.PurchaseAllowedAt <= b.PurchaseAllowedAt
                          /\ a.PurchaseAllowedAt = b.PurchaseAllowedAt =>
                                /\ a.CreatedAt >= b.CreatedAt
                                /\ a.CreatedAt = b.CreatedAt => a.ID > b.ID
                    /\ ~Open(a) /\ ~Open(b) =>
                          /\ a.CreatedAt >= b.CreatedAt
                          /\ a.CreatedAt = b.CreatedAt => a.ID > b.ID

\* three items given oldest first come out as the Ready to buy item, then a
\* Skipped and a Bought item of the same creation time, the higher ID first
C30_Witness ==
    /\ call.fn = "filterAndSortItems"
    /\ call.done
    /\ call.statuses = Statuses
    /\ call.items = <<ListedItem(1, "Bought", 0, 0), ListedItem(2, "Skipped", 0, 0),
                      ListedItem(3, "Ready to buy", 24, 1)>>
    /\ call.result = <<ListedItem(3, "Ready to buy", 24, 1), ListedItem(2, "Skipped", 0, 0),
                       ListedItem(1, "Bought", 0, 0)>>

\* C31: after a crash and restart at any point of a promotion, every store
\* write issued having succeeded, no notification request is issued for a
\* transition (item and eligibility instant) that had one before the restart
C31_NoSecondRequestAfterRestart ==
    [][(inflight' # 0 /\ (inflight' # inflight \/ op' # op))
         => <<inflight', ItemOf(items', inflight').PurchaseAllowedAt>> \notin Requested]_vars

\* a restart found a request issued, and the scheduler of the new process
\* has swept the reloaded list
C31_Witness ==
    /\ call.fn = "newAppWithDB"
    /\ sched = "idle"
    /\ \E i \in 1 .. Len(items) :
          /\ <<items[i].ID, items[i].PurchaseAllowedAt>> \in call.requested
          /\ items[i].Status = "Ready to buy"
          /\ items[i].NtfyAttempted

\* the list a sweep at t leaves when the gate skips every delivery
GateSkipped(list, t) ==
    [i \in 1 .. Len(list) |->
        IF list[i].Status = "Waiting" /\ list[i].PurchaseAllowedAt <= t
        THEN [list[i] EXCEPT !.Status = "Ready to buy", !.NtfyAttempted = TRUE]
        ELSE list[i]]

\* the responses of the operations that have swept
SweptResponse(r) ==
    \/ r.op \in {"tick", "view"}
    \/ r.op \in {"status", "snooze"} /\ r.code \in {303, 404, 409}
    \/ r.op \in {"editform", "create", "edit"} /\ r.rendered

\* C32: the outcome of the notification call is not part of item state: an
\* operation that sweeps ends with the item list it would end with had the
\* gate skipped every delivery, whatever each delivery returned
C32_OutcomeIsNotItemState ==
    [][(SweptResponse(resp') /\ mu' = "")
         => LET before == IF inflight # 0 THEN op.before ELSE items
                t == IF inflight # 0 THEN op.t ELSE now
                skipped == [items |-> GateSkipped(before, t), db |-> dbItems]
            IN \E id \in 0 .. MaxID, arg \in StatusInputs \cup SnoozeInputs \cup {""} :
                  /\ items' = AfterSweep(resp'.op, id, arg, t, skipped).items
                  /\ resp'.code = AfterSweep(resp'.op, id, arg, t, skipped).code]_vars

\* a sweep has ended that issued a request, answered by any outcome, for an
\* item it promoted
C32_Witness ==
    /\ resp.op \in {"tick", "view"}
    /\ mu = ""
    /\ \E id \in 1 .. MaxID :
          /\ ntfyLog[id].requests = 1
          /\ ItemOf(items, id).Status = "Ready to buy"
          /\ ItemOf(items, id).NtfyAttempted

\* C33: when the store write of a promotion or of the flag fails, the sweep
\* still leaves the item Ready to buy and flagged in memory, still makes the
\* notification attempt, and still processes the rest of the list
C33_SweepSurvivesWriteFailure ==
    /\ [][\A id \in 1 .. MaxID :
            (/\ ItemOf(items, id).Status = "Waiting"
             /\ ItemOf(items', id).Status = "Ready to buy"
             /\ dbItems'[id] # ItemOf(items', id))
            => /\ ItemOf(items', id).NtfyAttempted
               /\ ntfyLog'[id].requests = IF NtfySettings = "ok" THEN 1 ELSE 0
               /\ NtfySettings = "ok" => inflight' = id]_vars
    /\ [][(resp'.op \in {"tick", "view"} /\ mu' = "")
            => items' = GateSkipped(IF inflight # 0 THEN op.before ELSE items,
                                    IF inflight # 0 THEN op.t ELSE now)]_vars

\* a sweep has ended that promoted an item and sent its request while both
\* writes failed: the row still says Waiting and the item after it in the
\* list was promoted too
C33_Witness ==
    /\ resp.op = "tick"
    /\ failing = SweepWrites
    /\ Len(items) = 2
    /\ \A i \in 1 .. 2 :
          /\ items[i].Status = "Ready to buy"
          /\ items[i].NtfyAttempted
          /\ dbItems[items[i].ID].Status = "Waiting"
          /\ ntfyLog[items[i].ID].requests = 1

\* C34: sweeps are mutually exclusive under any interleaving of the
\* scheduler and the request handlers: while one sweep holds the lock only
\* that sweep goes on, a request goes out only for an item the step found
\* Waiting, and never for a transition that already had one
C34_SweepsAreExclusive ==
    /\ [][(mu # "" /\ (items' # items \/ dbItems' # dbItems \/ ntfyLog' # ntfyLog
                        \/ mu' # mu \/ op' # op \/ inflight' # inflight))
            => /\ mu' \in {mu, ""}
               /\ \/ op' = NoOp /\ inflight' = 0 /\ resp'.op = op.kind
                  \/ /\ op'.kind = op.kind
                     /\ op'.idx > op.idx
                     /\ op'.before = op.before
                     /\ mu' = mu]_vars
    /\ [][(inflight' # 0 /\ (inflight' # inflight \/ op' # op))
            => /\ ItemOf(items, inflight').Status = "Waiting"
               /\ ItemOf(items', inflight').Status = "Ready to buy"
               /\ ntfyLog'[inflight'].requests = 1
               /\ <<inflight', ItemOf(items', inflight').PurchaseAllowedAt>> \notin Requested]_vars
    /\ [](inflight # 0 <=> mu # "")

\* the ticker has fired while a handler's sweep holds the lock with its
\* request in flight: the scheduler's sweep has to wait
C34_Witness ==
    /\ mu = "handler"
    /\ inflight # 0
    /\ sched = "due"
    /\ \E i \in 1 .. Len(items) : items[i].Status = "Waiting" /\ items[i].PurchaseAllowedAt <= now

\* C35: every Ready to buy item has an eligibility instant at or before the
\* current time, and a Bought or Skipped decision is recorded only for an
\* item whose eligibility instant has passed
C35_ReadyIsElapsed ==
    /\ [](\A i \in 1 .. Len(items) :
             items[i].Status = "Ready to buy" => items[i].PurchaseAllowedAt <= now)
    /\ [][(resp'.op = "status" /\ resp'.code = 303)
            => /\ ItemOf(items', resp'.id).Status \in {"Bought", "Skipped"}
               /\ ItemOf(items', resp'.id).PurchaseAllowedAt <= now']_vars

\* a decision recorded at the very instant the item became eligible, later
\* than the start of the process
C35_Witness ==
    /\ resp.op = "status"
    /\ resp.code = 303
    /\ now > 0
    /\ ItemOf(items, resp.id).Status = "Skipped"
    /\ ItemOf(items, resp.id).PurchaseAllowedAt = now

\* C36: every item whose status is Waiting has its notification-attempted
\* flag false, in the list and, with a store, in its row
C36_WaitingIsUnattempted ==
    /\ \A i \in 1 .. Len(items) : items[i].Status = "Waiting" => ~items[i].NtfyAttempted
    /\ \A id \in 1 .. MaxID :
          (hasDB /\ dbItems[id].Status = "Waiting") => ~dbItems[id].NtfyAttempted

\* an item that waits again after its flag had been set and its request
\* sent: the snooze has cleared the flag
C36_Witness ==
    /\ resp.op = "snooze"
    /\ resp.code = 303
    /\ ItemOf(items, resp.id).Status = "Waiting"
    /\ ~ItemOf(items, resp.id).NtfyAttempted
    /\ ntfyLog[resp.id].snoozed

\* what the claim compares of an item: ID, status, eligibility instant, flag
Compared(list) ==
    {<<list[i].ID, list[i].Status, list[i].PurchaseAllowedAt, list[i].NtfyAttempted>> :
        i \in 1 .. Len(list)}

\* C37: with a store and no failing write, after every completed operation
\* the list in memory and the rows of the active profile agree on the item
\* IDs and on each item's status, eligibility instant and flag
C37_MemoryAgreesWithStore ==
    (hasDB /\ mu = "")
        => /\ Compared(items) = Compared(StoredItems(currentUserIDLocked, MaxID))
           /\ Len(items) = Len(StoredItems(currentUserIDLocked, MaxID))

\* an item has been deleted from a store that still holds another, a
\* decided one
C37_Witness ==
    /\ hasDB
    /\ resp.op = "delete"
    /\ resp.code = 303
    /\ dbItems[resp.id] = NoRow
    /\ Len(items) = 1
    /\ items[1].Status \in {"Bought", "Skipped"}
    /\ dbItems[items[1].ID].Status = items[1].Status

\* C38: a delete-profile request never removes the last remaining profile,
\* under any interleaving of concurrent delete-profile requests
C38_DeleteKeepsOneProfile ==
    [][(resp'.op = "deleteprofile" /\ ExistingProfiles # {}) => ExistingProfiles' # {}]_vars

\* C39: a profile save that submits no profile name never renames a
\* profile: it is answered 303 or 400, the active profile stays the one that
\* was active when the save took the lock, and no row of another profile
\* and no item changes its owner
C39_SaveNeverRenames ==
    [][resp'.op = "profile"
         => /\ resp'.code \in {303, 400}
            /\ currentUserIDLocked' = currentUserIDLocked
            /\ owner' = owner
            /\ \A n \in ProfileNames \ {currentUserIDLocked} : profiles'[n] = profiles[n]]_vars

====
